---------------------------- MODULE Spec2Model ----------------------------
(***************************************************************************)
(* Model of the autonomous on-chain blackjack player (rbuddy101/jack-ai).   *)
(*                                                                         *)
(*   - the PredictionJack contract (Blackjack.sol) for one player address,  *)
(*   - the direct RPC client (lib/rpc-client.ts),                           *)
(*   - the blackjack action provider reached through /api/agent,            *)
(*   - the game loop state machine (lib/game-loop.ts),                      *)
(*   - the singleton autonomous player (lib/autonomous-player.ts).          *)
(*                                                                         *)
(* Every start() call is a thread; a thread moves from one await of the     *)
(* TypeScript code to the next in one step.  The server side of an          *)
(* /api/agent request is a job that keeps running when the client aborts.   *)
(***************************************************************************)
EXTENDS Integers, Sequences, FiniteSets, TLC

(***************************************************************************)
(* Bounds of the model.                                                     *)
(***************************************************************************)
\* number of start() calls (threads) in a behaviour
MaxStarts == 2
\* number of cards of the 52-card deck the VRF may deal
DeckSize == 5
\* length of the trading period, in clock ticks
TradingTicks == 1
\* number of reads a poll loop makes before its 5-minute ceiling is reached
MaxPolls == 2
\* tokens returned by the swap of the start-game fee
SwapOut == 2
\* number of requests one cycle sends to /api/agent
MaxActions == 3
\* number of faults of the environment in a behaviour: a read that throws,
\* a request that fails, a transaction that fails or changes nothing though
\* the contract would accept it, a fetch that runs into its 60 s timer
MaxFaults == 1
\* number of cards of the hands whose value is computed
MaxHand == 3

\* startGameFee = 0.00069 ether, in units of 0.00001 ether
startGameFee == 69
\* bjConfig.minActionDelay as the constructor sets it, in clock ticks
minActionDelay == 0
\* the longest cooldown an admin has configured with setBjConfig, in clock
\* ticks
MaxDelay == 1

Threads == 1..MaxStarts
GameIds == 1..MaxStarts

\* the card ids (0..51) the VRF deals in the model: A, 6, K, 9, 10 of
\* clubs, then 5, A, 6 of diamonds; the first DeckSize of them are used
DeckCards == <<0, 5, 12, 8, 9, 17, 13, 18>>
\* the random words of the VRF, taken modulo the size of the deck
RandomWords == 0..(DeckSize - 1)

(***************************************************************************)
(* Blackjack.sol: pure helpers.                                             *)
(***************************************************************************)
_cardValue(cardId) ==
    LET rank == cardId % 13
    IN  IF rank = 0 THEN 11 ELSE IF rank >= 9 THEN 10 ELSE rank + 1

RECURSIVE RawTotal(_)
RawTotal(hand) ==
    IF hand = <<>> THEN 0 ELSE _cardValue(Head(hand)) + RawTotal(Tail(hand))

RECURSIVE AceCount(_)
AceCount(hand) ==
    IF hand = <<>> THEN 0
    ELSE (IF _cardValue(Head(hand)) = 11 THEN 1 ELSE 0) + AceCount(Tail(hand))

\* while (total > 21 && aces > 0) { total -= 10; aces--; }
RECURSIVE AdjustAces(_, _)
AdjustAces(total, aces) ==
    IF total > 21 /\ aces > 0 THEN AdjustAces(total - 10, aces - 1) ELSE total

_calculateHandValue(hand) ==
    IF Len(hand) = 0 THEN 0 ELSE AdjustAces(RawTotal(hand), AceCount(hand))


(***************************************************************************)
(* State.                                                                   *)
(***************************************************************************)
VARIABLES
    \* ---- Blackjack.sol, for the one player address ----
    games,            \* games[player]: the Game struct
    nextGameId,       \* nextGameId
    predictionMarkets,\* predictionMarkets[gameId]
    yesShares,        \* yesShares[gameId][player]
    noShares,         \* noShares[gameId][player]
    playerStats,      \* playerStats[player]
    \* ---- lib/autonomous-player.ts: the singleton ----
    isRunning,        \* AutonomousPlayerInstance.isRunning
    currentError,     \* AutonomousPlayerInstance.currentError ("null" when unset)
    eventListeners,   \* AutonomousPlayerInstance.eventListeners
    gameLoop,         \* AutonomousPlayerInstance.gameLoop: 0 (null) or an object id
    \* ---- lib/game-loop.ts: GameLoop objects, named by the thread that made them ----
    glState,          \* GameLoop.state
    glGameId,         \* GameLoop.currentGameId (0 when null)
    glStats,          \* GameLoop.stats
    glForward,        \* the forwardEvent listeners are attached to the object
    \* ---- threads: one per start() call ----
    pc,               \* where the call is suspended
    obj,              \* the GameLoop object its runGameCycle runs on
    arg,              \* gameId the claim step works on
    act,              \* action of executeAction / pending state polled for
    polls,            \* pollCount of the running poll loop
    ret,              \* where claimWinnings returns to
    \* ---- /api/agent: the server side of each thread's request ----
    job,
    \* ---- environment ----
    faults,           \* faults injected so far
    \* ---- history (not program state) ----
    txs,              \* transactions handed to sendTransaction, in order
    hist              \* per thread: what the cycle read, requested and how it ended

chainVars  == <<games, nextGameId, predictionMarkets, yesShares, noShares, playerStats>>
playerVars == <<isRunning, currentError, eventListeners, gameLoop>>
glVars     == <<glState, glGameId, glStats, glForward>>
threadVars == <<pc, obj, arg, act, polls, ret>>
vars == <<chainVars, playerVars, glVars, threadVars, job, faults, txs, hist>>

Listeners == {1}

(***************************************************************************)
(* Blackjack.sol: the contract.                                             *)
(***************************************************************************)
\* enum HandState
Inactive == "Inactive"
PendingInitialDeal == "PendingInitialDeal"
Active == "Active"
PendingHit == "PendingHit"
PendingStand == "PendingStand"
Busted == "Busted"
Finished == "Finished"

ZeroStats == [gamesPlayed |-> 0, wins |-> 0, losses |-> 0, pushes |-> 0, busts |-> 0]

NoMarket == [marketCreated |-> FALSE, tradingActive |-> FALSE, resolved |-> FALSE,
             result |-> "Pending", yesSharesTotal |-> 0, noSharesTotal |-> 0,
             yesDeposits |-> 0, noDeposits |-> 0]

\* _calculateClaimable(gameId, msg.sender)
_calculateClaimable(gameId) ==
    LET pm == predictionMarkets[gameId]
        y  == yesShares[gameId]
        n  == noShares[gameId]
        pot == pm.yesDeposits + pm.noDeposits
    IN  IF ~pm.resolved THEN 0
        ELSE IF pm.result = "Push"
             THEN (IF pm.yesSharesTotal > 0 /\ y > 0
                   THEN (y * pm.yesDeposits) \div pm.yesSharesTotal ELSE 0)
                + (IF pm.noSharesTotal > 0 /\ n > 0
                   THEN (n * pm.noDeposits) \div pm.noSharesTotal ELSE 0)
        ELSE IF pm.result = "Win"
             THEN (IF y > 0 /\ pm.yesSharesTotal > 0
                   THEN (y * pot) \div pm.yesSharesTotal ELSE 0)
        ELSE (IF n > 0 /\ pm.noSharesTotal > 0
              THEN (n * pot) \div pm.noSharesTotal ELSE 0)

\* getClaimableAmount(gameId, user); gameId 0 has no market
getClaimableAmount(gameId) ==
    IF gameId \in GameIds THEN _calculateClaimable(gameId) ELSE 0

\* _drawUniqueCard(g, randomness): card = randomness % 52 is tried, then
\* the card of the rehashed randomness, until one is unused or every
\* attempt is spent; the rehash is modelled as the successor
RECURSIVE TryCards(_, _, _)
TryCards(used, randomness, attempts) ==
    LET card == DeckCards[(randomness % DeckSize) + 1]
    IN  IF card \notin used \/ attempts + 1 >= DeckSize THEN card
        ELSE TryCards(used, randomness + 1, attempts + 1)

_drawUniqueCard(used, randomness) == TryCards(used, randomness, 0)

\* getGameDisplay(player): the status string
DisplayStatus(g) ==
    IF g.state = Inactive THEN "No active game"
    ELSE IF g.state = PendingInitialDeal THEN "Dealing cards..."
    ELSE IF g.state = Active /\ g.tradingLeft > 0 THEN "Trading period - Cannot act yet"
    ELSE IF g.state = Active THEN "Your turn"
    ELSE IF g.state = PendingHit THEN "Drawing card..."
    ELSE IF g.state = PendingStand THEN "Dealer playing..."
    ELSE IF g.state = Busted THEN "Busted!"
    ELSE "Game finished"

\* getGameDisplay(player); tradingLeft is tradingPeriodEnds - block.timestamp
\* (0 once the period is over), minActionDelay is 0 so cooledDown is true
\* a display whose canHit and canStand do not look at the trading period
getGameDisplay_noTradingGate(g) ==
    LET playerTotal == _calculateHandValue(g.playerHand)
        hasCards == Len(g.playerHand) > 0
        notAt21 == playerTotal < 21
    IN  [status      |-> DisplayStatus(g),
         gameId      |-> g.gameId,
         playerCards |-> g.playerHand,
         dealerCards |-> g.dealerHand,
         playerTotal |-> playerTotal,
         dealerTotal |-> _calculateHandValue(g.dealerHand),
         canHit      |-> g.state = Active /\ g.cooldownLeft = 0 /\ hasCards /\ notAt21,
         canStand    |-> g.state = Active /\ hasCards,
         canStartNew |-> g.state \in {Inactive, Busted, Finished},
         secondsUntilCanAct |->
             IF g.state = Active /\ g.tradingLeft > 0 THEN g.tradingLeft ELSE 0]

getGameDisplay(g) ==
    LET playerTotal == _calculateHandValue(g.playerHand)
        tradingPeriodOver == g.tradingLeft = 0
        cooledDown == g.cooldownLeft = 0
        hasCards == Len(g.playerHand) > 0
        notAt21 == playerTotal < 21
    IN  [status      |-> DisplayStatus(g),
         gameId      |-> g.gameId,
         playerCards |-> g.playerHand,
         dealerCards |-> g.dealerHand,
         playerTotal |-> playerTotal,
         dealerTotal |-> _calculateHandValue(g.dealerHand),
         canHit      |-> g.state = Active /\ tradingPeriodOver /\ cooledDown
                         /\ hasCards /\ notAt21,
         canStand    |-> g.state = Active /\ tradingPeriodOver /\ hasCards,
         canStartNew |-> g.state \in {Inactive, Busted, Finished},
         secondsUntilCanAct |->
             IF g.state = Active /\ g.tradingLeft > 0 THEN g.tradingLeft ELSE 0]

\* the cards of both hands: g.usedCards
usedCards(g) == {g.playerHand[i] : i \in 1..Len(g.playerHand)}
                \cup {g.dealerHand[i] : i \in 1..Len(g.dealerHand)}

NewGame == [gameId |-> 0, state |-> Inactive, playerHand |-> <<>>,
            dealerHand |-> <<>>, tradingLeft |-> 0, tokensHeld |-> 0,
            cooldownLeft |-> 0]

\* startGame() without its require on the phase of the caller's game
startGameAllowed_anyPhase ==
    /\ (games.gameId > 0 /\ predictionMarkets[games.gameId].resolved)
           => _calculateClaimable(games.gameId) = 0
    /\ nextGameId \in GameIds

\* the require statements of startGame()
startGameAllowed ==
    /\ (games.gameId > 0 /\ predictionMarkets[games.gameId].resolved)
           => _calculateClaimable(games.gameId) = 0
    /\ games.state \in {Inactive, Busted, Finished}
    /\ nextGameId \in GameIds

\* startGame()
startGame_sol ==
    /\ startGameAllowed
    /\ games' = [gameId |-> nextGameId, state |-> PendingInitialDeal,
                 playerHand |-> <<>>, dealerHand |-> <<>>,
                 tradingLeft |-> 0, tokensHeld |-> SwapOut,
                 cooldownLeft |-> minActionDelay]
    /\ nextGameId' = nextGameId + 1
    /\ UNCHANGED <<predictionMarkets, yesShares, noShares, playerStats>>

\* the require statements of hit()
hitAllowed ==
    /\ games.state = Active
    /\ Len(games.playerHand) > 0
    /\ games.tradingLeft = 0
    /\ games.cooldownLeft = 0
    /\ _calculateHandValue(games.playerHand) < 21

\* hit()
hit_sol ==
    /\ hitAllowed
    /\ games' = [games EXCEPT !.state = PendingHit, !.cooldownLeft = minActionDelay]
    /\ UNCHANGED <<nextGameId, predictionMarkets, yesShares, noShares, playerStats>>

\* the require statements of stand()
standAllowed ==
    /\ games.state = Active
    /\ Len(games.playerHand) > 0
    /\ games.tradingLeft = 0

\* stand()
stand_sol ==
    /\ standAllowed
    /\ games' = [games EXCEPT !.state = PendingStand, !.cooldownLeft = minActionDelay]
    /\ predictionMarkets' =
           [predictionMarkets EXCEPT ![games.gameId].tradingActive = FALSE]
    /\ UNCHANGED <<nextGameId, yesShares, noShares, playerStats>>

\* the require statement of claimWinnings(gameId)
claimAllowed(gameId) == gameId \in GameIds /\ _calculateClaimable(gameId) > 0

\* claimWinnings(gameId)
claimWinnings_sol(gameId) ==
    /\ claimAllowed(gameId)
    /\ yesShares' = [yesShares EXCEPT ![gameId] = 0]
    /\ noShares' = [noShares EXCEPT ![gameId] = 0]
    /\ UNCHANGED <<games, nextGameId, predictionMarkets, playerStats>>

\* _handleInitialDeal: four cards, player and dealer in turn
_handleInitialDeal(randomness) ==
        LET c1 == _drawUniqueCard({}, randomness)
            c2 == _drawUniqueCard({c1}, randomness + 1)
            c3 == _drawUniqueCard({c1, c2}, randomness + 2)
            c4 == _drawUniqueCard({c1, c2, c3}, randomness + 3)
            ph == <<c1, c3>>
            dh == <<c2, c4>>
            half == games.tokensHeld \div 2
        IN  IF _calculateHandValue(ph) = 21
            THEN /\ games' = [games EXCEPT !.playerHand = ph, !.dealerHand = dh,
                                           !.tokensHeld = 0, !.state = Finished,
                                           !.cooldownLeft = minActionDelay]
                 /\ playerStats' =
                        IF _calculateHandValue(dh) = 21
                        THEN [playerStats EXCEPT !.gamesPlayed = @ + 1, !.pushes = @ + 1]
                        ELSE [playerStats EXCEPT !.gamesPlayed = @ + 1, !.wins = @ + 1]
                 /\ UNCHANGED <<predictionMarkets, yesShares, noShares>>
            ELSE /\ games' = [games EXCEPT !.playerHand = ph, !.dealerHand = dh,
                                           !.tokensHeld = 0, !.state = Active,
                                           !.tradingLeft = TradingTicks,
                                           !.cooldownLeft = minActionDelay]
                 /\ predictionMarkets' = [predictionMarkets EXCEPT ![games.gameId] =
                        [marketCreated |-> TRUE, tradingActive |-> TRUE,
                         resolved |-> FALSE, result |-> "Pending",
                         yesSharesTotal |-> half, noSharesTotal |-> half,
                         yesDeposits |-> half, noDeposits |-> half]]
                 /\ yesShares' = [yesShares EXCEPT ![games.gameId] = half]
                 /\ noShares' = [noShares EXCEPT ![games.gameId] = half]
                 /\ UNCHANGED playerStats

\* a hit callback that busts the hand at 21 already
_handleHit_bustsAt21(randomness) ==
        LET card == _drawUniqueCard(usedCards(games), randomness)
            ph == Append(games.playerHand, card)
        IN  IF _calculateHandValue(ph) >= 21
            THEN /\ games' = [games EXCEPT !.playerHand = ph, !.state = Busted]
                 /\ playerStats' = [playerStats EXCEPT !.gamesPlayed = @ + 1,
                                        !.busts = @ + 1, !.losses = @ + 1]
                 /\ predictionMarkets' = [predictionMarkets EXCEPT
                        ![games.gameId].tradingActive = FALSE,
                        ![games.gameId].resolved = TRUE,
                        ![games.gameId].result = "Lose"]
                 /\ UNCHANGED <<yesShares, noShares>>
            ELSE /\ games' = [games EXCEPT !.playerHand = ph, !.state = Active,
                                           !.tradingLeft = TradingTicks]
                 /\ UNCHANGED <<predictionMarkets, yesShares, noShares, playerStats>>

\* _handleHit: one card for the player
_handleHit(randomness) ==
        LET card == _drawUniqueCard(usedCards(games), randomness)
            ph == Append(games.playerHand, card)
        IN  IF _calculateHandValue(ph) > 21
            THEN /\ games' = [games EXCEPT !.playerHand = ph, !.state = Busted]
                 /\ playerStats' = [playerStats EXCEPT !.gamesPlayed = @ + 1,
                                        !.busts = @ + 1, !.losses = @ + 1]
                 /\ predictionMarkets' = [predictionMarkets EXCEPT
                        ![games.gameId].tradingActive = FALSE,
                        ![games.gameId].resolved = TRUE,
                        ![games.gameId].result = "Lose"]
                 /\ UNCHANGED <<yesShares, noShares>>
            ELSE /\ games' = [games EXCEPT !.playerHand = ph, !.state = Active,
                                           !.tradingLeft = TradingTicks]
                 /\ UNCHANGED <<predictionMarkets, yesShares, noShares, playerStats>>

\* the dealer hand the loop of _handleStand ends with
RECURSIVE DealerDraws(_, _, _)
DealerDraws(dealerHand, used, randomness) ==
    IF _calculateHandValue(dealerHand) >= 17 THEN dealerHand
    ELSE LET card == _drawUniqueCard(used, randomness)
         IN  DealerDraws(Append(dealerHand, card), used \cup {card}, randomness + 1)

\* _handleStand: the dealer draws to 17, the hand is classified
_handleStand(randomness) ==
        LET dh == DealerDraws(games.dealerHand, usedCards(games), randomness)
            playerValue == _calculateHandValue(games.playerHand)
            dealerValue == _calculateHandValue(dh)
            marketResult ==
                IF playerValue > 21 THEN "Lose"
                ELSE IF dealerValue > 21 \/ playerValue > dealerValue THEN "Win"
                ELSE IF playerValue = dealerValue THEN "Push"
                ELSE "Lose"
        IN  /\ games' = [games EXCEPT !.dealerHand = dh, !.state = Finished]
            /\ playerStats' =
                   IF playerValue > 21
                   THEN [playerStats EXCEPT !.gamesPlayed = @ + 1,
                                            !.losses = @ + 1, !.busts = @ + 1]
                   ELSE IF marketResult = "Win"
                   THEN [playerStats EXCEPT !.gamesPlayed = @ + 1, !.wins = @ + 1]
                   ELSE IF marketResult = "Push"
                   THEN [playerStats EXCEPT !.gamesPlayed = @ + 1, !.pushes = @ + 1]
                   ELSE [playerStats EXCEPT !.gamesPlayed = @ + 1, !.losses = @ + 1]
            /\ predictionMarkets' = [predictionMarkets EXCEPT
                   ![games.gameId].resolved = TRUE,
                   ![games.gameId].result = marketResult]
            /\ UNCHANGED <<yesShares, noShares>>

(***************************************************************************)
(* Strings.  A status of the contract is kept as the contract writes it;    *)
(* status.toLowerCase().includes(k) is the table below, one pair for every  *)
(* keyword of the TypeScript code that occurs in a status.  An agent reply  *)
(* is the sequence of its lower-case words.                                 *)
(***************************************************************************)
StatusIncludes ==
    { <<"Dealing cards...", "dealing">>,
      <<"Drawing card...", "drawing">>,
      <<"Dealer playing...", "dealer playing">>,
      <<"Your turn", "your turn">>,
      <<"Busted!", "busted">>,
      <<"Game finished", "finished">>,
      <<"Game finished", "game finished">> }

includes(status, keyword) == <<status, keyword>> \in StatusIncludes

(***************************************************************************)
(* lib/rpc-client.ts                                                        *)
(***************************************************************************)
isWaitingForVRF(status) ==
    \/ includes(status, "dealing")
    \/ includes(status, "drawing")
    \/ includes(status, "dealer playing")

\* a completion test that knows the result phrases only
isGameComplete_resultsOnly(status) ==
    \/ includes(status, "you win")
    \/ includes(status, "dealer wins")
    \/ includes(status, "push")
    \/ includes(status, "busted")

isGameComplete(status) ==
    \/ includes(status, "you win")
    \/ includes(status, "dealer wins")
    \/ includes(status, "push")
    \/ includes(status, "busted")
    \/ includes(status, "finished")
    \/ includes(status, "game over")

\* pollForStateChange: the stillPending test of one read
stillPending(initialState, status) ==
    \/ initialState = PendingInitialDeal /\ includes(status, "dealing")
    \/ initialState = PendingHit /\ includes(status, "drawing")
    \/ initialState = PendingStand /\ includes(status, "dealer playing")

(***************************************************************************)
(* action-providers/blackjack/blackjackActionProvider.ts                    *)
(***************************************************************************)
\* pollGameState: inPendingState of one read
inPendingState(initialState, status) ==
    \/ initialState = PendingInitialDeal /\ includes(status, "dealing")
    \/ initialState = PendingHit /\ includes(status, "drawing")
    \/ initialState = PendingStand /\ includes(status, "dealer playing")

\* pollGameState: isInFinalState of one read
isInFinalState(d) ==
    \/ includes(d.status, "your turn")
    \/ includes(d.status, "busted")
    \/ includes(d.status, "game finished")
    \/ d.canStartNew

\* what the actions return
MsgStarted      == <<"game", "started", "successfully">>
MsgUnclaimed    == <<"you", "have", "unclaimed", "winnings">>
MsgCannotStart  == <<"cannot", "start", "new", "game">>
MsgInsufficient == <<"insufficient", "balance">>
MsgErrorStart   == <<"error", "starting", "game">>
MsgHitDone      == <<"hit", "action", "completed">>
MsgErrorHit     == <<"error", "hitting">>
MsgStandDone    == <<"stand", "action", "completed">>
MsgErrorStand   == <<"error", "standing">>
MsgNoWinnings   == <<"no", "winnings", "to", "claim">>
MsgClaimed      == <<"successfully", "claimed", "winnings">>
MsgErrorClaim   == <<"error", "claiming", "winnings">>
\* data.response of a reply that has no response field
MsgNone         == <<>>

(***************************************************************************)
(* lib/game-loop.ts: pure parts                                             *)
(***************************************************************************)
\* enum GameLoopState
IDLE == "idle"
CHECKING_CLAIMABLE == "checking_claimable"
CLAIMING_WINNINGS == "claiming_winnings"
STARTING_GAME == "starting_game"
WAITING_INITIAL_DEAL == "waiting_initial_deal"
WAITING_TRADING_PERIOD == "waiting_trading_period"
PLAYING == "playing"
WAITING_HIT_VRF == "waiting_hit_vrf"
WAITING_STAND_VRF == "waiting_stand_vrf"
GAME_COMPLETE == "game_complete"
ERROR == "error"

\* parseGameResult(status)
parseGameResult(status) ==
    IF includes(status, "you win") \/ includes(status, "blackjack") THEN "WIN"
    ELSE IF includes(status, "dealer wins") THEN "LOSS"
    ELSE IF includes(status, "busted") THEN "BUST"
    ELSE IF includes(status, "push") THEN "PUSH"
    ELSE "UNKNOWN"

\* updateStats(result), on the five counters
updateStats(stats, result) ==
    LET s == [stats EXCEPT !.gamesPlayed = @ + 1]
    IN  IF result = "WIN" THEN [s EXCEPT !.wins = @ + 1]
        ELSE IF result = "LOSS" THEN [s EXCEPT !.losses = @ + 1]
        ELSE IF result = "BUST" THEN [s EXCEPT !.busts = @ + 1, !.losses = @ + 1]
        ELSE IF result = "PUSH" THEN [s EXCEPT !.pushes = @ + 1]
        ELSE s

\* getDecision(playerTotal, ...)
getDecision(playerTotal) == IF playerTotal < 17 THEN "hit" ELSE "stand"

\* executeAction: the errorKeywords test on the agent's reply
errorKeywords == {"error", "failed", "reverted", "insufficient", "check your balance",
                  "try again later", "needs more eth", "needs eth"}

hasError(agentResponse) ==
    \E i \in DOMAIN agentResponse : agentResponse[i] \in errorKeywords

\* a planner that resumes whatever hand the snapshot shows
planCycle_resumesAnyHand(d) ==
    IF d.gameId > 0 THEN "ResumeActive"
    ELSE IF d.canStartNew THEN "StartFresh"
    ELSE "Unknown"

\* a planner that claims and restarts on every game id
planCycle_restartsAnyHand(d) ==
    IF d.gameId > 0 THEN "ClaimThenRestart"
    ELSE IF d.canStartNew THEN "StartFresh"
    ELSE "Unknown"

\* a planner that starts fresh only for a player who has played before
planCycle_needsGameId(d) ==
    IF isGameComplete(d.status) /\ d.gameId > 0 THEN "ClaimThenRestart"
    ELSE IF ~d.canStartNew /\ d.gameId > 0 THEN "ResumeActive"
    ELSE IF d.canStartNew /\ d.gameId > 0 THEN "StartFresh"
    ELSE "Unknown"

\* runGameCycle: the branch taken on the snapshot read at cycle start
planCycle(d) ==
    IF isGameComplete(d.status) /\ d.gameId > 0 THEN "ClaimThenRestart"
    ELSE IF ~d.canStartNew /\ d.gameId > 0 THEN "ResumeActive"
    ELSE IF d.canStartNew THEN "StartFresh"
    ELSE "Unknown"

\* a hand loop that acts on every snapshot
cannotAct_never(d) == FALSE

\* playHand: the snapshot offers no action, the loop sleeps and reads again
cannotAct(d) == ~d.canHit /\ ~d.canStand

\* executeAction's action -> the pending state its transaction leads to
PendingOf(action) ==
    IF action = "start" THEN PendingInitialDeal
    ELSE IF action = "hit" THEN PendingHit ELSE PendingStand

(***************************************************************************)
(* Initial state: a deployed contract the player has never used, a freshly  *)
(* loaded server module (singleton constructed, nothing initialized).       *)
(***************************************************************************)
NoJob == [pc |-> "none", action |-> "none", polls |-> 0, seen |-> FALSE,
          reply |-> MsgNone]

NoSnapshot == [read |-> FALSE, gameId |-> 0, canStartNew |-> FALSE,
               complete |-> FALSE, waiting |-> FALSE, claimable |-> FALSE]

(***************************************************************************)
(* The table component: cards as the page holds them, and their total.      *)
(***************************************************************************)
\* const ranks = ['A', '2', ..., 'K'], the same order as the contract's
ranks == <<"A", "2", "3", "4", "5", "6", "7", "8", "9", "10", "J", "Q", "K">>

\* parseInt(rank) for the number ranks
parseInt(rank) == CHOOSE n \in 2..10 : ranks[n] = rank

\* CardData of one card: generateRandomCard's value for the rank
CardData(rank) ==
    [rank |-> rank,
     value |-> IF rank = "A" THEN 11
               ELSE IF rank \in {"J", "Q", "K"} THEN 10
               ELSE parseInt(rank)]

\* _getCardDisplay(cardId): the rank; the page holds the card as CardData
_getCardDisplay(cardId) == ranks[(cardId % 13) + 1]

CardsOf(hand) == [i \in DOMAIN hand |-> CardData(_getCardDisplay(hand[i]))]

\* cards.reduce((sum, card) => sum + card.value, 0)
RECURSIVE SumValues(_)
SumValues(cards) ==
    IF cards = <<>> THEN 0 ELSE Head(cards).value + SumValues(Tail(cards))

\* a total that leaves every ace at 11
calculateTotal_rawSum(cards) == SumValues(cards)

\* calculateTotal(cards)
calculateTotal(cards) ==
    LET total == SumValues(cards)
        aces == Cardinality({i \in DOMAIN cards : cards[i].rank = "A"})
    IN  AdjustAces(total, aces)

NoTotals == [shown |-> FALSE, client |-> 0, contract |-> 0]

\* the result handed to updateStats and game_complete, with the totals of
\* the snapshot it was parsed from
NoRecord == [result |-> "none", playerTotal |-> 0, dealerTotal |-> 0]

NoHistory ==
    [first |-> NoSnapshot,    \* the snapshot read at cycle start
     branch |-> "none",       \* the branch runGameCycle took on it
     reqs |-> <<>>,           \* actions sent to /api/agent, in order
     outcome |-> "none",      \* running, completed, cancelled, error, refused
     cancelAt |-> "none",     \* GameLoop.state when stop() was called on the run
     readsAfterCancel |-> 0,  \* chain reads made after that, counted to 2
     sentAfterCancel |-> "none", \* first submission begun after that
     errorEvent |-> FALSE,    \* an error event reached a listener
     statsUpdates |-> 0,      \* calls of updateStats
     handEnded |-> FALSE,     \* the cycle saw its hand in a terminal phase
     standExit |-> "none",    \* phase when the loop left after a stand
     accepted |-> "none",     \* a poll returned a first read that was never pending
     recorded |-> NoRecord,   \* what the cycle recorded at game completion
     actFailed |-> FALSE,     \* executeAction returned false for a hit or stand
     vrfWaits |-> 0,          \* reads of playHand in a row that show a pending
                              \* phase, counted to MaxPolls + 1
     claimFailed |-> FALSE,   \* a read or the transaction of a claim threw
     claimedEvent |-> 0,      \* gameId of the winnings_claimed event emitted
     polled |-> FALSE,        \* getStatus() was called while the cycle ran
     dealt |-> "none",        \* phase of the hand when the wait for the initial
                              \* deal returned
     totals |-> NoTotals,     \* the totals computed for the hand on the table
     flagless |-> "none"]     \* an action requested on a snapshot whose flag for
                              \* it was false

Init ==
    /\ games = NewGame
    /\ nextGameId = 1
    /\ predictionMarkets = [g \in GameIds |-> NoMarket]
    /\ yesShares = [g \in GameIds |-> 0]
    /\ noShares = [g \in GameIds |-> 0]
    /\ playerStats = ZeroStats
    /\ isRunning = FALSE
    /\ currentError = "null"
    /\ eventListeners = {}
    /\ gameLoop = 0
    /\ glState = [o \in Threads |-> IDLE]
    /\ glGameId = [o \in Threads |-> 0]
    /\ glStats = [o \in Threads |-> ZeroStats]
    /\ glForward = [o \in Threads |-> FALSE]
    /\ pc = [c \in Threads |-> "idle"]
    /\ obj = [c \in Threads |-> 0]
    /\ arg = [c \in Threads |-> 0]
    /\ act = [c \in Threads |-> "none"]
    /\ polls = [c \in Threads |-> 0]
    /\ ret = [c \in Threads |-> "none"]
    /\ job = [c \in Threads |-> NoJob]
    /\ faults = 0
    /\ txs = <<>>
    /\ hist = [c \in Threads |-> NoHistory]

\* the threads inside runGameCycle
CyclePcs == {"rgc_status", "rgc_claimable", "cw_claimable", "rc_claimable", "rc_send",
             "ea_fetch", "poll", "wtp", "ph_status", "ph_sleep"}
InCycle(c) == pc[c] \in CyclePcs

\* AutonomousPlayerInstance.shouldStop()
shouldStop == ~isRunning

\* the environment may inject a fault / has done so in this step
mayFail == faults < MaxFaults
fault(injected) == faults' = IF injected THEN faults + 1 ELSE faults

\* one more chain read of thread c, for the history
CountRead(h) ==
    IF h.cancelAt # "none" /\ h.readsAfterCancel < 2
    THEN [h EXCEPT !.readsAfterCancel = @ + 1] ELSE h

\* one submission begun by thread c, for the history
CountSent(h, kind) ==
    IF h.cancelAt # "none" /\ h.sentAfterCancel = "none"
    THEN [h EXCEPT !.sentAfterCancel = kind] ELSE h

(***************************************************************************)
(* Pieces of a thread step.  Each fixes the next value of                   *)
(*   glState, isRunning, currentError, pc, act, polls, job, hist            *)
(* and leaves the other variables to the step that uses it.                 *)
(***************************************************************************)
\* runGameCycle returned or threw `err` ("none": returned): the catch and
\* finally blocks of runContinuousLoop, then start() returns
runContinuousLoop_catch(c, newState, err, h) ==
    /\ glState' = [glState EXCEPT ![obj[c]] = newState]
    /\ currentError' = IF err \in {"none", "Stopped by user"} THEN currentError ELSE err
    /\ isRunning' = FALSE
    /\ pc' = [pc EXCEPT ![c] = "done"]
    /\ act' = [act EXCEPT ![c] = "none"]
    /\ polls' = [polls EXCEPT ![c] = 0]
    /\ hist' = [hist EXCEPT ![c] =
           [h EXCEPT !.outcome = IF err = "none" THEN "completed"
                                 ELSE IF err = "Stopped by user" THEN "cancelled"
                                 ELSE "error",
                     !.errorEvent = @ \/ (err \notin {"none", "Stopped by user"}
                                          /\ eventListeners # {})]]

\* the same while no request of the thread is at the server
runContinuousLoop_end(c, newState, err, h) ==
    /\ runContinuousLoop_catch(c, newState, err, h)
    /\ job' = job

\* this.emit("error", ...) on GameLoop object o followed by `thrown`: with no
\* listener attached, EventEmitter throws instead of delivering
emitError(o, thrown) == IF glForward[o] THEN thrown ELSE "Unhandled error"

\* startGame() up to its first await: setState(STARTING_GAME), then
\* executeAction("start") up to the fetch
startGame_begin(c, h) ==
    IF shouldStop
    THEN \* the pre-fetch throw is caught by executeAction's own catch: false
         runContinuousLoop_end(c, ERROR, emitError(obj[c], "Failed to start game"),
             [h EXCEPT !.errorEvent = @ \/ (glForward[obj[c]] /\ eventListeners # {})])
    ELSE /\ glState' = [glState EXCEPT ![obj[c]] = STARTING_GAME]
         /\ pc' = [pc EXCEPT ![c] = "ea_fetch"]
         /\ act' = [act EXCEPT ![c] = "start"]
         /\ polls' = [polls EXCEPT ![c] = 0]
         /\ job' = [job EXCEPT ![c] = [NoJob EXCEPT !.pc = "pre", !.action = "start"]]
         /\ hist' = [hist EXCEPT ![c] =
                [CountSent(h, "start") EXCEPT !.reqs = Append(@, "start")]]
         /\ UNCHANGED <<isRunning, currentError>>

\* a hand loop that asks for a new game on every turn
playHand_top_startsAgain(c, h) == startGame_begin(c, h)

\* playHand() up to its first await: setState(PLAYING), the check at the
\* top of the loop, then getGameStatus()
playHand_top(c, h) ==
    IF shouldStop
    THEN runContinuousLoop_end(c, PLAYING, "Stopped by user", h)
    ELSE /\ glState' = [glState EXCEPT ![obj[c]] = PLAYING]
         /\ pc' = [pc EXCEPT ![c] = "ph_status"]
         /\ act' = [act EXCEPT ![c] = "none"]
         /\ polls' = [polls EXCEPT ![c] = 0]
         /\ hist' = [hist EXCEPT ![c] = h]
         /\ UNCHANGED <<isRunning, currentError, job>>

\* a thread moves to another await without anything else
goto(c, newState, newPc, h) ==
    /\ glState' = [glState EXCEPT ![obj[c]] = newState]
    /\ pc' = [pc EXCEPT ![c] = newPc]
    /\ hist' = [hist EXCEPT ![c] = h]
    /\ UNCHANGED <<isRunning, currentError, act, polls, job>>

(***************************************************************************)
(* lib/autonomous-player.ts: start, stop, on, off                           *)
(***************************************************************************)
\* the history of the calls that have returned is dropped when a new call
\* is made
Archive == [b \in Threads |-> IF pc[b] = "done" THEN NoHistory ELSE hist[b]]

\* start(): thread c is the c-th call.  With the player initialized the
\* guard, the flag and the entry of runGameCycle run without a real await.
start(c) ==
    /\ pc[c] = "idle"
    /\ \A b \in Threads : b < c => pc[b] # "idle"
    /\ IF isRunning
       THEN /\ pc' = [pc EXCEPT ![c] = "done"]
            /\ hist' = [Archive EXCEPT ![c].outcome = "refused"]
            /\ UNCHANGED <<isRunning, currentError, glState, obj>>
       ELSE IF gameLoop # 0
       THEN /\ isRunning' = TRUE
            /\ currentError' = "null"
            /\ obj' = [obj EXCEPT ![c] = gameLoop]
            /\ glState' = [glState EXCEPT ![gameLoop] = CHECKING_CLAIMABLE]
            /\ pc' = [pc EXCEPT ![c] = "rgc_status"]
            /\ hist' = [Archive EXCEPT ![c].outcome = "running"]
       ELSE /\ pc' = [pc EXCEPT ![c] = "init"]
            /\ hist' = Archive
            /\ UNCHANGED <<isRunning, currentError, glState, obj>>
    /\ UNCHANGED <<chainVars, eventListeners, gameLoop, glGameId, glStats, glForward,
                   arg, act, polls, ret, job, faults, txs>>

\* initialize() completes for thread c (createRPCClient, GameLoop.create and
\* the forwardEvent listeners), start() goes on into runGameCycle
initialize(c) ==
    /\ pc[c] = "init"
    /\ gameLoop' = c
    /\ obj' = [obj EXCEPT ![c] = c]
    /\ glForward' = [glForward EXCEPT ![c] = TRUE]
    /\ \E loaded \in {playerStats} \cup (IF mayFail THEN {ZeroStats} ELSE {}) :
           /\ glStats' = [glStats EXCEPT ![c] = loaded]
           /\ fault(loaded # playerStats)
    /\ isRunning' = TRUE
    /\ currentError' = "null"
    /\ glState' = [glState EXCEPT ![c] = CHECKING_CLAIMABLE]
    /\ pc' = [pc EXCEPT ![c] = "rgc_status"]
    /\ hist' = [hist EXCEPT ![c].outcome = "running"]
    /\ UNCHANGED <<chainVars, eventListeners, glGameId, arg, act, polls, ret, job, txs>>

\* stop(), with cleanup()
stop ==
    /\ isRunning
    /\ isRunning' = FALSE
    /\ glForward' = IF gameLoop # 0 THEN [glForward EXCEPT ![gameLoop] = FALSE]
                    ELSE glForward
    /\ eventListeners' = {}
    /\ currentError' = "null"
    /\ hist' = [c \in Threads |->
                   IF InCycle(c) /\ hist[c].cancelAt = "none"
                   THEN [hist[c] EXCEPT !.cancelAt = glState[obj[c]]]
                   ELSE hist[c]]
    /\ UNCHANGED <<chainVars, gameLoop, glState, glGameId, glStats, threadVars, job,
                   faults, txs>>

\* on(listener)
on(l) ==
    /\ l \notin eventListeners
    /\ eventListeners' = eventListeners \cup {l}
    /\ UNCHANGED <<chainVars, isRunning, currentError, gameLoop, glVars, threadVars,
                   job, faults, txs, hist>>

\* off(listener)
off(l) ==
    /\ l \in eventListeners
    /\ eventListeners' = eventListeners \ {l}
    /\ UNCHANGED <<chainVars, isRunning, currentError, gameLoop, glVars, threadVars,
                   job, faults, txs, hist>>

\* getStats() that hands out this.stats itself
getStats_sameObject(o) == [shared |-> TRUE, stats |-> glStats[o]]

\* getStats(): return { ...this.stats }; the counters are numbers, so the
\* spread shares nothing with this.stats
getStats(o) == [shared |-> FALSE, stats |-> glStats[o]]

\* what a caller that writes into the stats object it was given makes of it
callerWrites(stats) == [stats EXCEPT !.gamesPlayed = IF @ = 0 THEN 1 ELSE 0]

\* getStatus(), followed by its caller writing into the stats it returned
getStatus ==
    /\ LET returned == IF gameLoop = 0
                       THEN [shared |-> FALSE, stats |-> ZeroStats]
                       ELSE getStats(gameLoop)
       IN  glStats' = IF returned.shared
                      THEN [glStats EXCEPT ![gameLoop] = callerWrites(returned.stats)]
                      ELSE glStats
    /\ hist' = [c \in Threads |->
                   IF InCycle(c) THEN [hist[c] EXCEPT !.polled = TRUE] ELSE hist[c]]
    /\ UNCHANGED <<chainVars, playerVars, glState, glGameId, glForward, threadVars,
                   job, faults, txs>>

(***************************************************************************)
(* lib/game-loop.ts: runGameCycle, one step per await                       *)
(***************************************************************************)
\* what a thread step leaves alone besides the variables of its pieces
restOfCycle == <<chainVars, eventListeners, gameLoop, glGameId, glStats, glForward,
                 obj, arg, ret, txs>>

\* the results a read of the chain can have: it returns, or it throws
ReadResults == {TRUE} \cup (IF mayFail THEN {FALSE} ELSE {})

\* getGameStatus() of runGameCycle returns: the branch on the first snapshot
runGameCycle_status(c) ==
    /\ pc[c] = "rgc_status"
    /\ UNCHANGED faults
    /\ LET d == getGameDisplay(games)
           h == [CountRead(hist[c]) EXCEPT !.first =
                    [read |-> TRUE, gameId |-> d.gameId, canStartNew |-> d.canStartNew,
                     complete |-> isGameComplete(d.status),
                     waiting |-> d.secondsUntilCanAct > 0,
                     claimable |-> getClaimableAmount(d.gameId) > 0]]
       IN  IF planCycle(d) = "ClaimThenRestart"
           THEN /\ goto(c, glState[obj[c]], "rgc_claimable",
                        [h EXCEPT !.branch = "ClaimThenRestart"])
                /\ arg' = [arg EXCEPT ![c] = d.gameId]
                /\ UNCHANGED <<chainVars, eventListeners, gameLoop, glGameId, glStats,
                               glForward, obj, ret, txs>>
           ELSE IF planCycle(d) = "ResumeActive"
           THEN /\ IF d.secondsUntilCanAct > 0
                   THEN goto(c, glState[obj[c]], "wtp", [h EXCEPT !.branch = "ResumeActive"])
                   ELSE playHand_top(c, [h EXCEPT !.branch = "ResumeActive"])
                /\ UNCHANGED restOfCycle
           ELSE IF planCycle(d) = "StartFresh"
           THEN /\ startGame_begin(c, [h EXCEPT !.branch = "StartFresh"])
                /\ UNCHANGED restOfCycle
           ELSE /\ runContinuousLoop_end(c, ERROR,
                      IF glForward[obj[c]] THEN "none" ELSE "Unhandled error",
                      [h EXCEPT !.branch = "Unknown",
                                !.errorEvent = glForward[obj[c]] /\ eventListeners # {}])
                /\ UNCHANGED restOfCycle

\* a claim whose end fails the cycle
claimWinnings_return_fails(c, h) ==
    IF h.claimFailed
    THEN runContinuousLoop_end(c, ERROR, "Failed to claim winnings", h)
    ELSE IF ret[c] = "start" THEN startGame_begin(c, h)
    ELSE runContinuousLoop_end(c, glState[obj[c]], "none", h)

\* claimWinnings(gameId) of the game loop returns to its caller
claimWinnings_return(c, h) ==
    IF ret[c] = "start" THEN startGame_begin(c, h)
    ELSE runContinuousLoop_end(c, glState[obj[c]], "none", h)

\* getClaimableAmount() of runGameCycle returns or throws
runGameCycle_claimable(c) ==
    /\ pc[c] = "rgc_claimable"
    /\ \E ok \in ReadResults :
           LET h == CountRead(hist[c])
           IN  IF ok /\ getClaimableAmount(arg[c]) > 0
               THEN /\ goto(c, CHECKING_CLAIMABLE, "cw_claimable", h)
                    /\ fault(~ok)
                    /\ ret' = [ret EXCEPT ![c] = "start"]
                    /\ UNCHANGED <<chainVars, eventListeners, gameLoop, glGameId,
                                   glStats, glForward, obj, arg, txs>>
               ELSE /\ startGame_begin(c, [h EXCEPT !.claimFailed = @ \/ ~ok])
                    /\ fault(~ok)
                    /\ UNCHANGED restOfCycle

\* getClaimableAmount() of claimWinnings returns or throws
claimWinnings_claimable(c) ==
    /\ pc[c] = "cw_claimable"
    /\ \E ok \in ReadResults :
           /\ fault(~ok)
           /\ LET h == CountRead(hist[c])
              IN  IF ok /\ getClaimableAmount(arg[c]) > 0
                  THEN goto(c, CLAIMING_WINNINGS, "rc_claimable", h)
                  ELSE claimWinnings_return(c, [h EXCEPT !.claimFailed = @ \/ ~ok])
    /\ UNCHANGED restOfCycle

\* rpcClient.claimWinnings: its own read of the claimable amount
rpcClaim_claimable(c) ==
    /\ pc[c] = "rc_claimable"
    /\ \E ok \in ReadResults :
           /\ fault(~ok)
           /\ LET h == CountRead(hist[c])
              IN  IF ok /\ getClaimableAmount(arg[c]) # 0
                  THEN goto(c, glState[obj[c]], "rc_send", h)
                  ELSE claimWinnings_return(c, [h EXCEPT !.claimFailed = TRUE])
    /\ UNCHANGED restOfCycle

\* what a transaction can do: the call is applied; or the transaction is
\* confirmed while the call changed nothing; or the send throws / the
\* receipt says reverted.  A call the contract accepts is applied unless
\* the environment fails.
TxResults(allowed) ==
    IF allowed THEN {"applied"} \cup (IF mayFail THEN {"noop", "failed"} ELSE {})
    ELSE {"noop", "failed"}

\* rpcClient.claimWinnings: sendTransaction and the receipt; the receipt's
\* status is not looked at, a throw is swallowed by claimWinnings; when the
\* hash is returned claimWinnings emits winnings_claimed
rpcClaim_send(c) ==
    /\ pc[c] = "rc_send"
    /\ \E res \in TxResults(claimAllowed(arg[c])) :
           /\ fault(claimAllowed(arg[c]) /\ res # "applied")
           /\ IF res = "applied"
              THEN claimWinnings_sol(arg[c])
              ELSE UNCHANGED chainVars
           /\ txs' = Append(txs, [kind |-> "claim", gameId |-> arg[c], by |-> c])
           /\ claimWinnings_return(c,
                  [CountSent(hist[c], "claim") EXCEPT
                      !.claimFailed = @ \/ res = "failed",
                      !.claimedEvent = IF res = "failed" THEN @ ELSE arg[c]])
    /\ UNCHANGED <<eventListeners, gameLoop, glGameId, glStats, glForward, obj, arg, ret>>

\* executeAction returned `ok` to startGame / playHand, which go on to
\* their poll (playHand does not look at the value)
executeAction_returned(c, ok, h) ==
    IF act[c] = "start" /\ ~ok
    THEN runContinuousLoop_catch(c, ERROR, emitError(obj[c], "Failed to start game"),
             [h EXCEPT !.errorEvent = @ \/ (glForward[obj[c]] /\ eventListeners # {})])
    ELSE /\ glState' = [glState EXCEPT ![obj[c]] =
                IF act[c] = "start" THEN WAITING_INITIAL_DEAL
                ELSE IF act[c] = "hit" THEN WAITING_HIT_VRF ELSE WAITING_STAND_VRF]
         /\ pc' = [pc EXCEPT ![c] = "poll"]
         /\ polls' = [polls EXCEPT ![c] = 0]
         /\ hist' = [hist EXCEPT ![c] = [h EXCEPT !.actFailed = @ \/ ~ok]]
         /\ UNCHANGED <<isRunning, currentError, act>>

\* the fetch of executeAction resolves with the agent's reply
executeAction_response(c) ==
    /\ pc[c] = "ea_fetch"
    /\ job[c].pc = "done"
    /\ job' = [job EXCEPT ![c] = NoJob]
    /\ executeAction_returned(c, ~hasError(job[c].reply), hist[c])
    /\ UNCHANGED <<restOfCycle, faults>>

\* the fetch rejects with AbortError: the 500 ms check saw shouldStop(), or
\* the 60 s timer fired.  The request goes on at the server.
executeAction_abort(c) ==
    /\ pc[c] = "ea_fetch"
    /\ IF shouldStop THEN TRUE ELSE mayFail
    /\ fault(~shouldStop)
    /\ runContinuousLoop_catch(c, glState[obj[c]], "Stopped by user", hist[c])
    /\ job' = [job EXCEPT ![c] = IF @.pc = "done" THEN NoJob ELSE @]
    /\ UNCHANGED restOfCycle

\* the fetch fails before the request is served, or the reply is not ok:
\* executeAction returns false
executeAction_fails(c) ==
    /\ pc[c] = "ea_fetch"
    /\ job[c].pc = "pre"
    /\ mayFail
    /\ fault(TRUE)
    /\ job' = [job EXCEPT ![c] = NoJob]
    /\ executeAction_returned(c, FALSE, hist[c])
    /\ UNCHANGED restOfCycle

\* pollForStateChange: one turn of its loop; the shouldStop argument the
\* game loop passes is not a parameter of the function
pollForStateChange(c) ==
    /\ pc[c] = "poll"
    /\ LET d == getGameDisplay(games)
           o == obj[c]
           h == CountRead(hist[c])
           ha == IF polls[c] = 0 THEN [h EXCEPT !.accepted = act[c]] ELSE h
           hr == IF act[c] = "start" THEN [ha EXCEPT !.dealt = games.state] ELSE ha
       IN  IF polls[c] >= MaxPolls
           THEN /\ runContinuousLoop_end(c, glState[o],
                       "Timeout waiting for state change", hist[c])
                /\ UNCHANGED <<glGameId, glStats, ret>>
           ELSE IF stillPending(PendingOf(act[c]), d.status)
           THEN /\ polls' = [polls EXCEPT ![c] = @ + 1]
                /\ hist' = [hist EXCEPT ![c] = h]
                /\ UNCHANGED <<glState, isRunning, currentError, pc, act, job,
                               glGameId, glStats, ret>>
           ELSE IF act[c] = "start"
           THEN /\ glGameId' = [glGameId EXCEPT ![o] = d.gameId]
                /\ IF isGameComplete(d.status)
                   THEN LET result == parseGameResult(d.status)
                            hs == [hr EXCEPT !.statsUpdates = @ + 1, !.handEnded = TRUE,
                                             !.recorded = [result |-> result,
                                                 playerTotal |-> d.playerTotal,
                                                 dealerTotal |-> d.dealerTotal]]
                        IN  /\ glStats' = [glStats EXCEPT ![o] = updateStats(@, result)]
                            /\ IF result = "WIN" /\ d.gameId # 0
                               THEN /\ goto(c, CHECKING_CLAIMABLE, "cw_claimable", hs)
                                    /\ ret' = [ret EXCEPT ![c] = "end"]
                               ELSE /\ runContinuousLoop_end(c, GAME_COMPLETE, "none", hs)
                                    /\ ret' = ret
                   ELSE /\ goto(c, WAITING_TRADING_PERIOD, "wtp", hr)
                        /\ UNCHANGED <<glStats, ret>>
           ELSE IF act[c] = "hit"
           THEN /\ playHand_top(c, hr)
                /\ UNCHANGED <<glGameId, glStats, ret>>
           ELSE /\ runContinuousLoop_end(c, glState[o], "none",
                       [hr EXCEPT !.standExit = games.state,
                                  !.handEnded = @ \/ isGameComplete(d.status)])
                /\ UNCHANGED <<glGameId, glStats, ret>>
    /\ UNCHANGED <<chainVars, eventListeners, gameLoop, glForward, obj, arg, faults, txs>>

\* a wait whose read moves the contract's clock
waitForTradingPeriod_touches(c) ==
    /\ pc[c] = "wtp"
    /\ games.tradingLeft > 0
    /\ games' = [games EXCEPT !.tradingLeft = @ - 1]
    /\ hist' = [hist EXCEPT ![c] = CountRead(hist[c])]
    /\ UNCHANGED <<nextGameId, predictionMarkets, yesShares, noShares, playerStats,
                   playerVars, glVars, threadVars, job, faults, txs>>

\* waitForTradingPeriod: one turn of its loop; it takes no argument
waitForTradingPeriod(c) ==
    /\ pc[c] = "wtp"
    /\ LET d == getGameDisplay(games)
           h == CountRead(hist[c])
       IN  IF d.secondsUntilCanAct <= 0
           THEN playHand_top(c, h)
           ELSE goto(c, glState[obj[c]], "wtp", h)
    /\ UNCHANGED <<restOfCycle, faults>>

\* playHand: getGameStatus() returns, up to the next await
playHand_status(c) ==
    /\ pc[c] = "ph_status"
    /\ LET d == getGameDisplay(games)
           h == CountRead(hist[c])
           decision == getDecision(d.playerTotal)
       IN  IF isGameComplete(d.status)
           THEN runContinuousLoop_end(c, PLAYING, "none", [h EXCEPT !.handEnded = TRUE])
           ELSE IF isWaitingForVRF(d.status) \/ cannotAct(d)
           THEN goto(c, PLAYING, "ph_sleep",
                     [h EXCEPT !.vrfWaits =
                         IF ~isWaitingForVRF(d.status) THEN 0
                         ELSE IF @ > MaxPolls THEN @ ELSE @ + 1])
           ELSE IF shouldStop
           THEN runContinuousLoop_end(c, PLAYING, "Stopped by user", h)
           ELSE /\ Len(h.reqs) < MaxActions
                /\ pc' = [pc EXCEPT ![c] = "ea_fetch"]
                /\ act' = [act EXCEPT ![c] = decision]
                /\ job' = [job EXCEPT ![c] =
                       [NoJob EXCEPT !.pc = "pre", !.action = decision]]
                /\ hist' = [hist EXCEPT ![c] =
                       [CountSent(h, decision) EXCEPT
                           !.reqs = Append(@, decision),
                           !.vrfWaits = 0,
                           !.flagless =
                               IF \/ decision = "hit" /\ ~d.canHit
                                  \/ decision = "stand" /\ ~d.canStand
                               THEN decision ELSE @]]
                /\ UNCHANGED <<glState, isRunning, currentError, polls>>
    /\ UNCHANGED <<restOfCycle, faults>>

\* playHand: the 2 s sleep ends, the loop starts over with its check
playHand_sleep(c) ==
    /\ pc[c] = "ph_sleep"
    /\ playHand_top(c, hist[c])
    /\ UNCHANGED <<restOfCycle, faults>>

\* a getGameStatus() of the cycle throws: the cycle fails with the error
getGameStatus_throws(c) ==
    /\ pc[c] \in {"rgc_status", "poll", "wtp", "ph_status"}
    /\ mayFail
    /\ fault(TRUE)
    /\ runContinuousLoop_end(c, glState[obj[c]], "Failed to get game status", hist[c])
    /\ UNCHANGED restOfCycle

(***************************************************************************)
(* /api/agent and the blackjack action provider.  The agent calls the       *)
(* action the message asks for, once, and replies with what it returned.    *)
(***************************************************************************)
\* the action returns `reply`; a client that has gone gets nothing
provider_return(c, reply) ==
    job' = [job EXCEPT ![c] =
               IF pc[c] = "ea_fetch"
               THEN [NoJob EXCEPT !.pc = "done", !.reply = reply]
               ELSE NoJob]

jobVarsRest == <<isRunning, currentError, eventListeners, gameLoop, glVars,
                 threadVars>>

\* a provider that does not look at the claimable amount
unclaimedWinnings_unchecked(d) == FALSE

\* startGame: "You have unclaimed winnings" when the previous game has any
unclaimedWinnings(d) == d.gameId > 0 /\ getClaimableAmount(d.gameId) > 0

ErrorReply(action) ==
    IF action = "start" THEN MsgErrorStart
    ELSE IF action = "hit" THEN MsgErrorHit ELSE MsgErrorStand

DoneReply(action) ==
    IF action = "start" THEN MsgStarted
    ELSE IF action = "hit" THEN MsgHitDone ELSE MsgStandDone

\* the POST handler throws (agent creation, model call): its catch replies
\* 200 with an error field and no response field
agentRoute_error(c) ==
    /\ job[c].pc = "pre"
    /\ pc[c] = "ea_fetch"
    /\ mayFail
    /\ fault(TRUE)
    /\ provider_return(c, MsgNone)
    /\ UNCHANGED <<chainVars, jobVarsRest, txs, hist>>

\* startGame / hit / stand of the provider: the reads before the transaction
provider_pre(c) ==
    /\ job[c].pc = "pre"
    /\ LET d == getGameDisplay(games)
           a == job[c].action
       IN  IF a = "start"
           THEN IF unclaimedWinnings(d)
                THEN provider_return(c, MsgUnclaimed) /\ UNCHANGED faults
                ELSE IF ~d.canStartNew
                THEN provider_return(c, MsgCannotStart) /\ UNCHANGED faults
                ELSE \E enough \in ReadResults :
                        /\ fault(~enough)
                        /\ IF enough THEN job' = [job EXCEPT ![c].pc = "send"]
                           ELSE provider_return(c, MsgInsufficient)
           ELSE IF (a = "hit" /\ ~d.canHit) \/ (a = "stand" /\ ~d.canStand)
           THEN provider_return(c, ErrorReply(a)) /\ UNCHANGED faults
           ELSE job' = [job EXCEPT ![c].pc = "send"] /\ UNCHANGED faults
    /\ UNCHANGED <<chainVars, jobVarsRest, txs, hist>>

\* the contract call of a transaction
contractCall(a) ==
    IF a = "start" THEN startGame_sol
    ELSE IF a = "hit" THEN hit_sol ELSE stand_sol

\* whether the contract accepts the call
callAllowed(a) ==
    IF a = "start" THEN startGameAllowed
    ELSE IF a = "hit" THEN hitAllowed ELSE standAllowed

\* sendTransaction and waitForTransactionReceipt of the provider: the call
\* is applied, or the transaction succeeds while the call changed nothing,
\* or the send throws / the receipt says reverted
provider_send(c) ==
    /\ job[c].pc = "send"
    /\ LET a == job[c].action
       IN  \E res \in TxResults(callAllowed(a)) :
               /\ fault(callAllowed(a) /\ res # "applied")
               /\ IF res = "applied" THEN contractCall(a) ELSE UNCHANGED chainVars
               /\ txs' = Append(txs, [kind |-> a, gameId |-> games.gameId, by |-> c])
               /\ IF res = "failed" THEN provider_return(c, ErrorReply(a))
                  ELSE job' = [job EXCEPT ![c].pc =
                                  IF a = "stand" THEN "imm" ELSE "poll"]
    /\ UNCHANGED <<jobVarsRest, hist>>

\* stand: the read right after the receipt
provider_immediate(c) ==
    /\ job[c].pc = "imm"
    /\ LET d == getGameDisplay(games)
       IN  IF ~includes(d.status, "dealer playing")
              /\ d.status = "Your turn" /\ d.canStand
           THEN provider_return(c, MsgErrorStand)
           ELSE job' = [job EXCEPT ![c].pc = "poll"]
    /\ UNCHANGED <<chainVars, jobVarsRest, faults, txs, hist>>

\* pollGameState: one turn of its loop (polls is pollCount before the turn,
\* counted to 2)
pollGameState(c) ==
    /\ job[c].pc = "poll"
    /\ LET d == getGameDisplay(games)
           a == job[c].action
           pollCount == job[c].polls + 1
           pending == inPendingState(PendingOf(a), d.status)
       IN  IF pollCount = 1 /\ ~pending /\ ~isInFinalState(d)
           THEN /\ provider_return(c, ErrorReply(a))
                /\ hist' = hist
           ELSE IF (pollCount > 1 \/ pending) /\ isInFinalState(d)
           THEN /\ provider_return(c, DoneReply(a))
                /\ hist' = IF job[c].seen THEN hist
                           ELSE [hist EXCEPT ![c].accepted = "provider"]
           ELSE /\ job' = [job EXCEPT ![c].polls = IF pollCount > 1 THEN 2 ELSE 1,
                                      ![c].seen = @ \/ pending]
                /\ hist' = hist
    /\ UNCHANGED <<chainVars, jobVarsRest, faults, txs>>

\* pollGameState gives up after 5 minutes; the client's fetch has been
\* aborted by its 60 s timer long before
pollGameState_timeout(c) ==
    /\ job[c].pc = "poll"
    /\ job[c].polls > 1
    /\ pc[c] # "ea_fetch"
    /\ provider_return(c, ErrorReply(job[c].action))
    /\ UNCHANGED <<chainVars, jobVarsRest, faults, txs, hist>>

(***************************************************************************)
(* The environment: the VRF coordinator and the clock.                      *)
(***************************************************************************)
\* fulfillRandomWords(requestId, randomWords) for the player's request
fulfillRandomWords ==
    /\ games.state \in {PendingInitialDeal, PendingHit, PendingStand}
    /\ \E randomness \in RandomWords :
           IF games.state = PendingInitialDeal THEN _handleInitialDeal(randomness)
           ELSE IF games.state = PendingHit THEN _handleHit(randomness)
           ELSE _handleStand(randomness)
    /\ UNCHANGED <<nextGameId, playerVars, glVars, threadVars, job, faults, txs, hist>>

\* block.timestamp advances by one tick of the trading period and of the
\* cooldown
tick ==
    /\ games.tradingLeft > 0 \/ games.cooldownLeft > 0
    /\ games' = [games EXCEPT !.tradingLeft = IF @ > 0 THEN @ - 1 ELSE 0,
                              !.cooldownLeft = IF @ > 0 THEN @ - 1 ELSE 0]
    /\ UNCHANGED <<nextGameId, predictionMarkets, yesShares, noShares, playerStats,
                   playerVars, glVars, threadVars, job, faults, txs, hist>>

\* start() is called after every earlier call has returned
startAfterReturn(c) ==
    /\ \A b \in Threads : b < c => pc[b] = "done"
    /\ start(c)

Next ==
    \/ \E c \in Threads : startAfterReturn(c)
    \/ \E c \in Threads : initialize(c)
    \/ stop
    \/ \E l \in Listeners : on(l)
    \/ \E l \in Listeners : off(l)
    \/ \E c \in Threads : runGameCycle_status(c)
    \/ \E c \in Threads : runGameCycle_claimable(c)
    \/ \E c \in Threads : claimWinnings_claimable(c)
    \/ \E c \in Threads : rpcClaim_claimable(c)
    \/ \E c \in Threads : rpcClaim_send(c)
    \/ \E c \in Threads : executeAction_response(c)
    \/ \E c \in Threads : executeAction_abort(c)
    \/ \E c \in Threads : executeAction_fails(c)
    \/ \E c \in Threads : pollForStateChange(c)
    \/ \E c \in Threads : waitForTradingPeriod(c)
    \/ \E c \in Threads : playHand_status(c)
    \/ \E c \in Threads : playHand_sleep(c)
    \/ \E c \in Threads : getGameStatus_throws(c)
    \/ \E c \in Threads : agentRoute_error(c)
    \/ \E c \in Threads : provider_pre(c)
    \/ \E c \in Threads : provider_send(c)
    \/ \E c \in Threads : provider_immediate(c)
    \/ \E c \in Threads : pollGameState(c)
    \/ \E c \in Threads : pollGameState_timeout(c)
    \/ fulfillRandomWords
    \/ tick

Spec == Init /\ [][Next]_vars

(***************************************************************************)
(* Overlapping calls: start() is called while earlier calls have not        *)
(* returned.  The VRF coordinator does not answer in these behaviours, so   *)
(* every hand stays where its start-game transaction left it.               *)
(***************************************************************************)
NextOverlap ==
    \/ \E c \in Threads : start(c)
    \/ \E c \in Threads : initialize(c)
    \/ stop
    \/ \E c \in Threads : runGameCycle_status(c)
    \/ \E c \in Threads : executeAction_response(c)
    \/ \E c \in Threads : executeAction_abort(c)
    \/ \E c \in Threads : executeAction_fails(c)
    \/ \E c \in Threads : pollForStateChange(c)
    \/ \E c \in Threads : playHand_status(c)
    \/ \E c \in Threads : playHand_sleep(c)
    \/ \E c \in Threads : getGameStatus_throws(c)
    \/ \E c \in Threads : agentRoute_error(c)
    \/ \E c \in Threads : provider_pre(c)
    \/ \E c \in Threads : provider_send(c)
    \/ \E c \in Threads : pollGameState(c)
    \/ \E c \in Threads : pollGameState_timeout(c)

SpecOverlap == Init /\ [][NextOverlap]_vars

(***************************************************************************)
(* The planner on any snapshot: the contract behind the node is in any      *)
(* phase, with or without a game id, when the first cycle starts.  Only the *)
(* steps up to the first request of the cycle are taken.                    *)
(***************************************************************************)
PlannerGames ==
    { [gameId |-> g, state |-> s,
       playerHand |-> IF s \in {Inactive, PendingInitialDeal} THEN <<>>
                      ELSE IF s = Busted THEN <<12, 8, 9>> ELSE <<12, 8>>,
       dealerHand |-> IF s \in {Inactive, PendingInitialDeal} THEN <<>> ELSE <<5, 9>>,
       tradingLeft |-> t, tokensHeld |-> 0, cooldownLeft |-> 0] :
      g \in {0, 1},
      s \in {Inactive, PendingInitialDeal, Active, PendingHit, PendingStand,
             Busted, Finished},
      t \in {0, TradingTicks} }

InitPlanner ==
    /\ games \in {g \in PlannerGames : g.tradingLeft > 0 => g.state = Active}
    /\ nextGameId = 1
    /\ predictionMarkets = [g \in GameIds |-> NoMarket]
    /\ yesShares = [g \in GameIds |-> 0]
    /\ noShares = [g \in GameIds |-> 0]
    /\ playerStats = ZeroStats
    /\ isRunning = FALSE
    /\ currentError = "null"
    /\ eventListeners = {}
    /\ gameLoop = 0
    /\ glState = [o \in Threads |-> IDLE]
    /\ glGameId = [o \in Threads |-> 0]
    /\ glStats = [o \in Threads |-> ZeroStats]
    /\ glForward = [o \in Threads |-> FALSE]
    /\ pc = [c \in Threads |-> "idle"]
    /\ obj = [c \in Threads |-> 0]
    /\ arg = [c \in Threads |-> 0]
    /\ act = [c \in Threads |-> "none"]
    /\ polls = [c \in Threads |-> 0]
    /\ ret = [c \in Threads |-> "none"]
    /\ job = [c \in Threads |-> NoJob]
    /\ faults = 0
    /\ txs = <<>>
    /\ hist = [c \in Threads |-> NoHistory]

NextPlanner ==
    \/ \E c \in Threads : startAfterReturn(c)
    \/ \E c \in Threads : initialize(c)
    \/ stop
    \/ \E l \in Listeners : on(l)
    \/ \E l \in Listeners : off(l)
    \/ \E c \in Threads : runGameCycle_status(c)
    \/ \E c \in Threads : runGameCycle_claimable(c)
    \/ \E c \in Threads : executeAction_abort(c)
    \/ \E c \in Threads : waitForTradingPeriod(c)
    \/ \E c \in Threads : playHand_status(c)
    \/ \E c \in Threads : playHand_sleep(c)
    \/ \E c \in Threads : getGameStatus_throws(c)
    \/ tick

SpecPlanner == InitPlanner /\ [][NextPlanner]_vars

(***************************************************************************)
(* The action provider alone: requests come to /api/agent from any client,  *)
(* for any action and at any moment; request c is served by job[c].         *)
(***************************************************************************)
AgentActions == {"start", "hit", "stand", "claim"}

\* POST /api/agent with an action (and the game id of a claim)
agent_request(c, a, gameId) ==
    /\ pc[c] = "idle"
    /\ job[c].pc = "none"
    /\ Len(txs) < MaxActions
    /\ pc' = [pc EXCEPT ![c] = "ea_fetch"]
    /\ act' = [act EXCEPT ![c] = a]
    /\ arg' = [arg EXCEPT ![c] = IF a = "claim" THEN gameId ELSE 0]
    /\ job' = [job EXCEPT ![c] =
           [NoJob EXCEPT !.pc = IF a = "claim" THEN "cpre" ELSE "pre", !.action = a]]
    /\ UNCHANGED <<chainVars, playerVars, glVars, obj, polls, ret, faults, txs, hist>>

\* the reply reaches the client
agent_reply(c) ==
    /\ pc[c] = "ea_fetch"
    /\ job[c].pc = "done"
    /\ pc' = [pc EXCEPT ![c] = "idle"]
    /\ job' = [job EXCEPT ![c] = NoJob]
    /\ UNCHANGED <<chainVars, playerVars, glVars, obj, arg, act, polls, ret, faults,
                   txs, hist>>

\* a claimWinnings that sends whatever the claimable amount is
provider_claim_pre_unguarded(c) ==
    /\ job[c].pc = "cpre"
    /\ job' = [job EXCEPT ![c].pc = "csend"]
    /\ UNCHANGED <<chainVars, jobVarsRest, faults, txs, hist>>

\* claimWinnings of the provider: the read before the transaction
provider_claim_pre(c) ==
    /\ job[c].pc = "cpre"
    /\ IF getClaimableAmount(arg[c]) = 0
       THEN provider_return(c, MsgNoWinnings)
       ELSE job' = [job EXCEPT ![c].pc = "csend"]
    /\ UNCHANGED <<chainVars, jobVarsRest, faults, txs, hist>>

\* claimWinnings of the provider: sendTransaction and the receipt
provider_claim_send(c) ==
    /\ job[c].pc = "csend"
    /\ \E res \in TxResults(claimAllowed(arg[c])) :
           /\ fault(claimAllowed(arg[c]) /\ res # "applied")
           /\ IF res = "applied" THEN claimWinnings_sol(arg[c]) ELSE UNCHANGED chainVars
           /\ txs' = Append(txs, [kind |-> "claim", gameId |-> arg[c], by |-> c])
           /\ provider_return(c, IF res = "failed" THEN MsgErrorClaim ELSE MsgClaimed)
    /\ UNCHANGED <<jobVarsRest, hist>>

NextAgent ==
    \/ \E c \in Threads, a \in AgentActions, gameId \in GameIds :
           agent_request(c, a, gameId)
    \/ \E c \in Threads : agent_reply(c)
    \/ \E c \in Threads : provider_pre(c)
    \/ \E c \in Threads : provider_send(c)
    \/ \E c \in Threads : provider_immediate(c)
    \/ \E c \in Threads : pollGameState(c)
    \/ \E c \in Threads : provider_claim_pre(c)
    \/ \E c \in Threads : provider_claim_send(c)
    \/ fulfillRandomWords
    \/ tick

SpecAgent == Init /\ [][NextAgent]_vars

(***************************************************************************)
(* The planner and the hand loop on a contract whose admin has set          *)
(* minActionDelay with setBjConfig: the snapshots of PlannerGames, and the   *)
(* dealt hands during the cooldown of the last action.                      *)
(***************************************************************************)
\* the dealt hands are K 9 (19) and 5 9 (14)
CooldownGames ==
    PlannerGames \cup
    { [g EXCEPT !.cooldownLeft = k, !.playerHand = h] :
        g \in {p \in PlannerGames : p.state = Active /\ p.gameId > 0},
        k \in 0..MaxDelay,
        h \in {<<12, 8>>, <<17, 8>>} }

InitCooldown ==
    /\ games \in {g \in CooldownGames : g.tradingLeft > 0 => g.state = Active}
    /\ nextGameId = 1
    /\ predictionMarkets = [g \in GameIds |-> NoMarket]
    /\ yesShares = [g \in GameIds |-> 0]
    /\ noShares = [g \in GameIds |-> 0]
    /\ playerStats = ZeroStats
    /\ isRunning = FALSE
    /\ currentError = "null"
    /\ eventListeners = {}
    /\ gameLoop = 0
    /\ glState = [o \in Threads |-> IDLE]
    /\ glGameId = [o \in Threads |-> 0]
    /\ glStats = [o \in Threads |-> ZeroStats]
    /\ glForward = [o \in Threads |-> FALSE]
    /\ pc = [c \in Threads |-> "idle"]
    /\ obj = [c \in Threads |-> 0]
    /\ arg = [c \in Threads |-> 0]
    /\ act = [c \in Threads |-> "none"]
    /\ polls = [c \in Threads |-> 0]
    /\ ret = [c \in Threads |-> "none"]
    /\ job = [c \in Threads |-> NoJob]
    /\ faults = 0
    /\ txs = <<>>
    /\ hist = [c \in Threads |-> NoHistory]

SpecCooldown == InitCooldown /\ [][NextPlanner]_vars

(***************************************************************************)
(* The contract alone: the player's wallet calls it directly, in any order  *)
(* and with any value.                                                      *)
(***************************************************************************)
\* msg.value of a startGame call: nothing, the fee, the BET_AMOUNT default
MsgValues == {0, startGameFee, startGameFee + 1}

LastCall(kind, value, reverted) ==
    <<[kind |-> kind, gameId |-> games.gameId, by |-> 0, value |-> value,
       reverted |-> reverted]>>

\* startGame{value: value}()
sol_startGame(value) ==
    /\ IF value >= startGameFee /\ startGameAllowed
       THEN startGame_sol /\ txs' = LastCall("start", value, FALSE)
       ELSE UNCHANGED chainVars /\ txs' = LastCall("start", value, TRUE)
    /\ UNCHANGED <<playerVars, glVars, threadVars, job, faults, hist>>

\* hit()
sol_hit ==
    /\ IF hitAllowed
       THEN hit_sol /\ txs' = LastCall("hit", 0, FALSE)
       ELSE UNCHANGED chainVars /\ txs' = LastCall("hit", 0, TRUE)
    /\ UNCHANGED <<playerVars, glVars, threadVars, job, faults, hist>>

\* stand()
sol_stand ==
    /\ IF standAllowed
       THEN stand_sol /\ txs' = LastCall("stand", 0, FALSE)
       ELSE UNCHANGED chainVars /\ txs' = LastCall("stand", 0, TRUE)
    /\ UNCHANGED <<playerVars, glVars, threadVars, job, faults, hist>>

\* claimWinnings(gameId)
sol_claimWinnings(gameId) ==
    /\ IF claimAllowed(gameId)
       THEN claimWinnings_sol(gameId) /\ txs' = LastCall("claim", 0, FALSE)
       ELSE UNCHANGED chainVars /\ txs' = LastCall("claim", 0, TRUE)
    /\ UNCHANGED <<playerVars, glVars, threadVars, job, faults, hist>>

NextContract ==
    \/ \E value \in MsgValues : sol_startGame(value)
    \/ sol_hit
    \/ sol_stand
    \/ \E gameId \in GameIds : sol_claimWinnings(gameId)
    \/ fulfillRandomWords
    \/ tick

SpecContract == Init /\ [][NextContract]_vars

(***************************************************************************)
(* Hand values: the table holds any hand of up to MaxHand cards of a deck   *)
(* with three aces, two sixes, a king and a two; the contract and the page  *)
(* compute its total.                                                       *)
(***************************************************************************)
\* A of clubs, diamonds and hearts, 6 of clubs and diamonds, K and 2 of clubs
HandCards == {0, 13, 26, 5, 18, 12, 1}

Hands ==
    {<<>>} \cup
    {h \in UNION {[1..n -> HandCards] : n \in 2..MaxHand} :
        \A i, j \in DOMAIN h : i # j => h[i] # h[j]}

\* the game of a hand: the phase the contract is in with these cards
GameOfHand(h) ==
    [gameId |-> IF h = <<>> THEN 0 ELSE 1,
     state |-> IF h = <<>> THEN Inactive
               ELSE IF _calculateHandValue(h) > 21 THEN Busted
               ELSE IF _calculateHandValue(h) = 21 /\ Len(h) = 2 THEN Finished
               ELSE Active,
     playerHand |-> h,
     dealerHand |-> IF h = <<>> THEN <<>> ELSE <<8, 9>>,
     tradingLeft |-> 0,
     tokensHeld |-> 0,
     cooldownLeft |-> 0]

InitHands ==
    /\ games \in {GameOfHand(h) : h \in Hands}
    /\ nextGameId = 2
    /\ predictionMarkets = [g \in GameIds |-> NoMarket]
    /\ yesShares = [g \in GameIds |-> 0]
    /\ noShares = [g \in GameIds |-> 0]
    /\ playerStats = ZeroStats
    /\ isRunning = FALSE
    /\ currentError = "null"
    /\ eventListeners = {}
    /\ gameLoop = 0
    /\ glState = [o \in Threads |-> IDLE]
    /\ glGameId = [o \in Threads |-> 0]
    /\ glStats = [o \in Threads |-> ZeroStats]
    /\ glForward = [o \in Threads |-> FALSE]
    /\ pc = [c \in Threads |-> "idle"]
    /\ obj = [c \in Threads |-> 0]
    /\ arg = [c \in Threads |-> 0]
    /\ act = [c \in Threads |-> "none"]
    /\ polls = [c \in Threads |-> 0]
    /\ ret = [c \in Threads |-> "none"]
    /\ job = [c \in Threads |-> NoJob]
    /\ faults = 0
    /\ txs = <<>>
    /\ hist = [c \in Threads |-> NoHistory]

\* the totals of the player's hand: the contract's for getGameDisplay, the
\* page's for the same cards
showTotals ==
    /\ hist' = [hist EXCEPT ![1].totals =
           [shown |-> TRUE,
            client |-> calculateTotal(CardsOf(games.playerHand)),
            contract |-> _calculateHandValue(games.playerHand)]]
    /\ UNCHANGED <<chainVars, playerVars, glVars, threadVars, job, faults, txs>>

NextHands == showTotals

SpecHands == InitHands /\ [][NextHands]_vars

(***************************************************************************)
(* The status route polls getStatus() at any moment of a run; the node and  *)
(* the server answer every request of these behaviours.                     *)
(***************************************************************************)
InitStatus ==
    /\ games = NewGame
    /\ nextGameId = 1
    /\ predictionMarkets = [g \in GameIds |-> NoMarket]
    /\ yesShares = [g \in GameIds |-> 0]
    /\ noShares = [g \in GameIds |-> 0]
    /\ playerStats = ZeroStats
    /\ isRunning = FALSE
    /\ currentError = "null"
    /\ eventListeners = {}
    /\ gameLoop = 0
    /\ glState = [o \in Threads |-> IDLE]
    /\ glGameId = [o \in Threads |-> 0]
    /\ glStats = [o \in Threads |-> ZeroStats]
    /\ glForward = [o \in Threads |-> FALSE]
    /\ pc = [c \in Threads |-> "idle"]
    /\ obj = [c \in Threads |-> 0]
    /\ arg = [c \in Threads |-> 0]
    /\ act = [c \in Threads |-> "none"]
    /\ polls = [c \in Threads |-> 0]
    /\ ret = [c \in Threads |-> "none"]
    /\ job = [c \in Threads |-> NoJob]
    /\ faults = MaxFaults
    /\ txs = <<>>
    /\ hist = [c \in Threads |-> NoHistory]

NextStatus ==
    \/ getStatus
    \/ \E c \in Threads : startAfterReturn(c)
    \/ \E c \in Threads : initialize(c)
    \/ stop
    \/ \E c \in Threads : runGameCycle_status(c)
    \/ \E c \in Threads : runGameCycle_claimable(c)
    \/ \E c \in Threads : claimWinnings_claimable(c)
    \/ \E c \in Threads : rpcClaim_claimable(c)
    \/ \E c \in Threads : rpcClaim_send(c)
    \/ \E c \in Threads : executeAction_response(c)
    \/ \E c \in Threads : executeAction_abort(c)
    \/ \E c \in Threads : pollForStateChange(c)
    \/ \E c \in Threads : waitForTradingPeriod(c)
    \/ \E c \in Threads : playHand_status(c)
    \/ \E c \in Threads : playHand_sleep(c)
    \/ \E c \in Threads : provider_pre(c)
    \/ \E c \in Threads : provider_send(c)
    \/ \E c \in Threads : provider_immediate(c)
    \/ \E c \in Threads : pollGameState(c)
    \/ fulfillRandomWords
    \/ tick

SpecStatus == InitStatus /\ [][NextStatus]_vars

(***************************************************************************)
(* Properties of the specification document, C1 to C5: cancellation and     *)
(* the pollers.                                                             *)
(***************************************************************************)
\* C1: under every interleaving of start() and stop(), at most one
\* runGameCycle execution is in progress at any time
C1_AtMostOneCycle ==
    \A a, b \in Threads : (InCycle(a) /\ InCycle(b)) => a = b

\* C2: a post-submit poll whose first read shows a phase that is not the
\* expected pending phase, the pending phase never having been observed,
\* raises a mismatch error; it never returns that read as a state change.
\* Neither pollForStateChange nor pollGameState accepts such a read.
C2_PollerFailsFast ==
    \A c \in Threads : hist[c].accepted = "none"

\* C3: a cycle cancelled while it polls in WAITING_HIT_VRF ends within one
\* poll interval: it makes at most one more read of the chain, and it does
\* not wait for the callback or for the timeout of the poll
C3_CancelDuringHitPoll ==
    \A c \in Threads :
        hist[c].cancelAt = WAITING_HIT_VRF =>
            /\ hist[c].readsAfterCancel <= 1
            /\ currentError # "Timeout waiting for state change"

\* C4: a cycle that was cancelled, in a behaviour without any fault of the
\* environment, does not end with an error: currentError stays unset and no
\* error event is delivered for it
C4_CancelIsNotAnError ==
    \A c \in Threads :
        (hist[c].cancelAt # "none" /\ faults = 0) =>
            /\ hist[c].outcome # "error"
            /\ ~hist[c].errorEvent
            /\ hist[c].outcome = "cancelled" => currentError = "null"

\* C5: once cancellation has been requested the running cycle begins no
\* submission of a claim, start, hit or stand any more, here in the
\* behaviours without any fault of the environment
C5_NoSubmissionAfterCancel ==
    \A c \in Threads : faults = 0 => hist[c].sentAfterCancel = "none"

(***************************************************************************)
(* Properties of the specification document, C6 to C10: the planner, the    *)
(* hand loop and the statistics.                                            *)
(***************************************************************************)
\* the first snapshot of cycle c was read and shows canStartNew
StartsOnCanStartNew(c) == hist[c].first.read /\ hist[c].first.canStartNew

\* C6: when the snapshot read at cycle start has canStartNew, the cycle
\* takes the start-new-game path, with or without a claim before it, never
\* the resume path: a hit or stand is requested only after a start
C6_CanStartNewStartsFresh ==
    \A c \in Threads :
        StartsOnCanStartNew(c) =>
            /\ hist[c].branch \in {"ClaimThenRestart", "StartFresh"}
            /\ hist[c].reqs = <<>> \/ hist[c].reqs[1] = "start"

\* a cycle that began on canStartNew has started a game and played in it
C6_Witness ==
    \E c \in Threads :
        /\ StartsOnCanStartNew(c)
        /\ Len(hist[c].reqs) >= 2
        /\ hist[c].reqs[2] \in {"hit", "stand"}

\* the first snapshot of cycle c shows a finished hand with winnings to claim
StartsOnClaimable(c) ==
    /\ hist[c].first.read
    /\ hist[c].first.gameId > 0
    /\ hist[c].first.complete
    /\ hist[c].first.claimable

\* C7: when the snapshot read at cycle start shows gameId > 0, a terminal
\* phase and a claimable amount > 0, the cycle submits a claim transaction
\* for that gameId before its start-game transaction is submitted
C7_ClaimBeforeStart ==
    \A i \in DOMAIN txs :
        (txs[i].kind = "start" /\ StartsOnClaimable(txs[i].by)) =>
            \E j \in 1..(i - 1) :
                /\ txs[j].kind = "claim"
                /\ txs[j].by = txs[i].by
                /\ txs[j].gameId = hist[txs[i].by].first.gameId

\* a cycle that began on a claimable finished hand has submitted its start
C7_Witness ==
    \E i \in DOMAIN txs : txs[i].kind = "start" /\ StartsOnClaimable(txs[i].by)

\* cycle c resumed a hand whose first snapshot showed the trading period
ResumedInTradingPeriod(c) ==
    hist[c].branch = "ResumeActive" /\ hist[c].first.waiting

\* C8: a cycle that resumed a hand during its trading period requests a hit
\* or a stand only in a step whose snapshot shows the period over
C8_NoActionInTradingPeriod ==
    [][\A c \in Threads :
           (ResumedInTradingPeriod(c) /\ Len(hist'[c].reqs) > Len(hist[c].reqs))
               => getGameDisplay(games).secondsUntilCanAct = 0]_vars

\* a cycle that resumed during the trading period has requested an action
C8_Witness ==
    \E c \in Threads : ResumedInTradingPeriod(c) /\ hist[c].reqs # <<>>

\* C9: whenever the hand loop is left after a stand, the hand is in a
\* terminal phase on chain
C9_StandEndsHand ==
    \A c \in Threads : hist[c].standExit \in {"none", Finished, Busted}

\* C10: a cycle that completed and whose hand reached a terminal phase has
\* called updateStats exactly once, here in the behaviours without any fault
\* of the environment
C10_StatsOncePerHand ==
    \A c \in Threads :
        (faults = 0 /\ hist[c].outcome = "completed" /\ hist[c].handEnded)
            => hist[c].statsUpdates = 1

(***************************************************************************)
(* Properties of the specification document, C11 to C20: outcomes, claims,  *)
(* failures and the end of the cycle.                                       *)
(***************************************************************************)
\* the outcome the totals of a terminal snapshot stand for
OutcomeOfTotals(playerTotal, dealerTotal) ==
    IF playerTotal > 21 THEN "BUST"
    ELSE IF dealerTotal > 21 \/ playerTotal > dealerTotal THEN "WIN"
    ELSE IF playerTotal < dealerTotal THEN "LOSS"
    ELSE "PUSH"

\* C11: the result recorded at game completion (handed to updateStats and
\* to the game_complete event) is the classification of the totals of the
\* terminal snapshot
C11_OutcomeMatchesTotals ==
    \A c \in Threads :
        hist[c].recorded.result # "none" =>
            hist[c].recorded.result =
                OutcomeOfTotals(hist[c].recorded.playerTotal,
                                hist[c].recorded.dealerTotal)

\* C12: a cycle that has halted after its hand ended as a player win with
\* a claimable amount > 0 has submitted a claim for that game, here in the
\* behaviours without any fault of the environment
C12_ClaimAfterWin ==
    \A c \in Threads :
        ( /\ faults = 0
          /\ hist[c].outcome = "completed"
          /\ hist[c].handEnded
          /\ games.gameId \in GameIds
          /\ games.state = Finished
          /\ predictionMarkets[games.gameId].result = "Win"
          /\ getClaimableAmount(games.gameId) > 0 )
        => \E i \in DOMAIN txs :
               /\ txs[i].kind = "claim"
               /\ txs[i].by = c
               /\ txs[i].gameId = games.gameId

\* C13: when a hit or stand submission is reported as failed, the cycle
\* fails: it does not go on to the VRF wait, and currentError is set
C13_FailedActionFailsCycle ==
    \A c \in Threads :
        hist[c].actFailed =>
            /\ hist[c].outcome = "error"
            /\ currentError # "null"

C15_VrfWaitIsBounded ==
    \A c \in Threads : polls[c] <= MaxPolls /\ hist[c].vrfWaits <= MaxPolls

\* the requests of a cycle that ask for a new game
StartRequests(c) == {i \in DOMAIN hist[c].reqs : hist[c].reqs[i] = "start"}

\* the start-game transactions sent for cycle c
StartTxs(c) == {i \in DOMAIN txs : txs[i].kind = "start" /\ txs[i].by = c}

\* C16: one invocation of runGameCycle plays at most one hand: it asks for
\* at most one new game and at most one start-game transaction is sent for
\* it, and once it has seen its hand in a terminal phase it requests no
\* start, hit or stand any more
C16_OneHandPerCycle ==
    /\ [](\A c \in Threads :
             /\ Cardinality(StartRequests(c)) <= 1
             /\ Cardinality(StartTxs(c)) <= 1)
    /\ [][\A c \in Threads :
             hist[c].handEnded => Len(hist'[c].reqs) <= Len(hist[c].reqs)]_vars

\* a cycle has started a game, played in it and seen the hand end
C16_Witness ==
    \E c \in Threads :
        /\ hist[c].handEnded
        /\ StartRequests(c) # {}
        /\ StartTxs(c) # {}
        /\ Len(hist[c].reqs) >= 2

\* C17: a cycle that halted without failure after seeing its hand in a
\* terminal phase has left the game loop in GAME_COMPLETE, here in the
\* behaviours without any fault of the environment
C17_EndsInGameComplete ==
    \A c \in Threads :
        (faults = 0 /\ hist[c].outcome = "completed" /\ hist[c].handEnded)
            => glState[obj[c]] = GAME_COMPLETE

\* C18: a transaction of a request is sent only while the cycle that made
\* the request still waits for its result, here in the behaviours without
\* any fault of the environment
C18_SubmissionIsAwaited ==
    [][\A c \in Threads :
          (faults = 0 /\ job[c].pc = "send" /\ job'[c].pc # "send")
              => pc[c] = "ea_fetch"]_vars

\* cycle c is inside one of the claim steps
InClaim(c) == pc[c] \in {"rgc_claimable", "cw_claimable", "rc_claimable", "rc_send"}

\* a claim of cycle c failed in the claim-then-restart branch and the cycle
\* was not cancelled
ClaimFailedInRestart(c) ==
    /\ hist[c].branch = "ClaimThenRestart"
    /\ hist[c].claimFailed
    /\ hist[c].cancelAt = "none"

\* C19: when reading the claimable amount or the claim transaction fails in
\* the claim-then-restart branch, the cycle is not failed: the step of the
\* failure leaves currentError alone and the cycle running, and the cycle
\* goes on to request the start of a new game
C19_ClaimFailureIsNotFatal ==
    /\ [](\A c \in Threads :
             ClaimFailedInRestart(c) =>
                 \/ InClaim(c)
                 \/ hist[c].reqs # <<>> /\ hist[c].reqs[1] = "start")
    /\ [][\A c \in Threads :
             (isRunning /\ InClaim(c) /\ ~hist[c].claimFailed /\ hist'[c].claimFailed)
                 => (currentError' = currentError /\ pc'[c] \in CyclePcs)]_vars

\* a claim failed in the claim-then-restart branch and the start of a new
\* game was requested after it
C19_Witness ==
    \E c \in Threads :
        /\ ClaimFailedInRestart(c)
        /\ hist[c].reqs # <<>>
        /\ hist[c].reqs[1] = "start"

\* C20: a winnings_claimed event is emitted only for a claim that took
\* effect: the claimable amount of its gameId is 0 afterwards
C20_ClaimedEventMeansPaid ==
    \A c \in Threads :
        hist[c].claimedEvent # 0 => getClaimableAmount(hist[c].claimedEvent) = 0


(***************************************************************************)
(* Claims C21 to C30.                                                       *)
(***************************************************************************)
\* C21: the cancel operation (stop) mutates only the cancel flag: it leaves
\* lastError (currentError), the statistics, the local phase, currentGameId
\* and the set of subscribed event listeners unchanged
C21_StopOnlySetsTheFlag ==
    [][stop => /\ currentError' = currentError
               /\ eventListeners' = eventListeners
               /\ UNCHANGED <<glState, glGameId, glStats>>]_vars

\* C22: within one cycle every subscribed listener receives the events the
\* state machine produces, none dropped: a state_change of a game loop that
\* happens while a listener is subscribed is forwarded to the listeners
C22_NoEventIsDropped ==
    [][\A o \in Threads :
          (glState'[o] # glState[o] /\ eventListeners # {}) => glForward'[o]]_vars

\* C23: getStatus() can be called in any state, also while a cycle runs,
\* without side effects: it changes neither isRunning, the local phase, the
\* statistics, currentGameId, lastError nor on-chain state, also when its
\* caller writes into the stats object it returned
C23_GetStatusHasNoSideEffect ==
    [][getStatus => UNCHANGED <<isRunning, currentError, glState, glStats, glGameId,
                                chainVars>>]_vars

\* getStatus() was called during a cycle whose statistics are not all zero
C23_Witness ==
    \E c \in Threads :
        /\ InCycle(c)
        /\ hist[c].polled
        /\ glStats[obj[c]] # ZeroStats

\* the wait for the initial deal of cycle c returned with the hand already
\* in a terminal phase
DealtTerminal(c) == hist[c].dealt \in {Finished, Busted}

\* C24: when the initial deal resolves directly to a terminal phase (player
\* blackjack, Active is skipped), the cycle treats the hand as terminal: its
\* loop is in GAME_COMPLETE, never in WAITING_TRADING_PERIOD or PLAYING, and
\* it requests no hit and no stand
C24_BlackjackDealIsTerminal ==
    \A c \in Threads :
        DealtTerminal(c) =>
            /\ glState[obj[c]] = GAME_COMPLETE
            /\ \A i \in DOMAIN hist[c].reqs : hist[c].reqs[i] = "start"

\* a cycle started a game whose deal gave the player a blackjack
C24_Witness ==
    \E c \in Threads :
        /\ DealtTerminal(c)
        /\ games.state = Finished
        /\ Len(games.playerHand) = 2
        /\ _calculateHandValue(games.playerHand) = 21
        /\ hist[c].reqs = <<"start">>
        /\ hist[c].outcome = "completed"

\* the value the hand has by the rule: the raw sum minus 10 for as many
\* aces as it takes to come to 21 or less, for all aces if that is not enough
HandValueByRule(hand) ==
    LET raw == RawTotal(hand)
        aces == AceCount(hand)
        enough == {k \in 0..aces : raw - 10 * k <= 21}
    IN  IF enough = {} THEN raw - 10 * aces
        ELSE raw - 10 * (CHOOSE k \in enough : \A m \in enough : k <= m)

\* C25: for every hand, calculateTotal of the page and _calculateHandValue
\* of the contract both return the raw sum minus 10 per ace while the total
\* exceeds 21; {A,A} is 12, {A,K} is 21, {A,6,6} is 13; and the value is at
\* most 21 whenever the hand has an ace and its raw sum exceeds 21 by at
\* most 10 per ace
C25_HandValue ==
    LET hand == games.playerHand
        t == hist[1].totals
    IN  t.shown =>
            /\ t.client = HandValueByRule(hand)
            /\ t.contract = HandValueByRule(hand)
            /\ (hand = <<0, 13>> => t.client = 12 /\ t.contract = 12)
            /\ (hand = <<0, 12>> => t.client = 21 /\ t.contract = 21)
            /\ (hand = <<0, 5, 18>> => t.client = 13 /\ t.contract = 13)
            /\ (AceCount(hand) >= 1 /\ RawTotal(hand) <= 21 + 10 * AceCount(hand)
                    => t.client <= 21 /\ t.contract <= 21)

\* the totals of a hand of three aces were computed: two adjustments
C25_Witness ==
    /\ hist[1].totals.shown
    /\ AceCount(games.playerHand) = 3
    /\ hist[1].totals.client = 13

\* the step changes what getGameStatus returns
SnapshotChanges == getGameDisplay(games') # getGameDisplay(games)

Unfinished == {PendingInitialDeal, Active, PendingHit, PendingStand}

\* the caller has winnings of its previous, resolved game left to claim
UnclaimedOfPrevious ==
    /\ games.gameId > 0
    /\ predictionMarkets[games.gameId].resolved
    /\ getClaimableAmount(games.gameId) > 0

\* C27: startGame takes effect only when the caller's game is Inactive,
\* Busted or Finished, the value sent is at least startGameFee and the
\* caller has no unclaimed winnings of the previous resolved game; otherwise
\* it reverts and leaves the state of the contract unchanged; a hand in
\* PendingInitialDeal, Active, PendingHit or PendingStand is never replaced
C27_StartGameGuards ==
    /\ [][\A value \in MsgValues :
             sol_startGame(value) =>
                 \/ /\ games.state \in {Inactive, Busted, Finished}
                    /\ value >= startGameFee
                    /\ ~UnclaimedOfPrevious
                 \/ UNCHANGED chainVars /\ txs'[1].reverted]_vars
    /\ [][games.state \in Unfinished =>
             /\ games'.gameId = games.gameId
             /\ nextGameId' = nextGameId]_vars

\* a startGame call with the fee reverted on an unfinished hand
C27_Witness ==
    /\ txs # <<>>
    /\ txs[1].kind = "start"
    /\ txs[1].reverted
    /\ txs[1].value >= startGameFee
    /\ games.state = Active
    /\ games.gameId = 1
    /\ nextGameId = 2

\* C28: getGameDisplay reports canHit (canStand) true exactly in the states
\* where hit() (stand()) passes all of its require guards in the same block:
\* a hit or stand call is applied exactly when the flag read before it was
\* true; both flags are false while the trading period is active and in
\* every pending or terminal phase
C28_FlagsMatchGuards ==
    /\ [](LET d == getGameDisplay(games)
          IN  /\ d.canHit <=> hitAllowed
              /\ d.canStand <=> standAllowed
              /\ (games.tradingLeft > 0 \/ games.state # Active)
                     => (~d.canHit /\ ~d.canStand))
    /\ [][(sol_hit => (getGameDisplay(games).canHit <=> ~txs'[1].reverted))
          /\ (sol_stand => (getGameDisplay(games).canStand <=> ~txs'[1].reverted))]_vars

\* a hit was refused during the trading period of a dealt hand
C28_Witness ==
    /\ txs # <<>>
    /\ txs[1].kind = "hit"
    /\ txs[1].reverted
    /\ games.state = Active
    /\ games.tradingLeft > 0
    /\ ~getGameDisplay(games).canHit

\* C29: the hand loop requests hit only when the snapshot its decision was
\* based on has canHit true, and stand only when that snapshot has canStand
\* true
C29_FlagsAreAuthoritative ==
    \A c \in Threads : hist[c].flagless = "none"

\* the snapshot cycle c read at its start shows an unfinished hand: a game
\* id, canStartNew false, a phase that is not terminal
StartsOnUnfinishedHand(c) ==
    /\ hist[c].first.read
    /\ hist[c].first.gameId > 0
    /\ ~hist[c].first.canStartNew
    /\ ~hist[c].first.complete

\* C30: a cycle whose snapshot at cycle start has gameId > 0, canStartNew
\* false and a non-terminal phase takes ResumeActive: it submits neither a
\* claim nor a start-game transaction and goes on to play the existing hand
C30_UnfinishedHandIsResumed ==
    \A c \in Threads :
        StartsOnUnfinishedHand(c) =>
            /\ hist[c].branch = "ResumeActive"
            /\ ~InClaim(c)
            /\ \A i \in DOMAIN hist[c].reqs : hist[c].reqs[i] \in {"hit", "stand"}
            /\ \A i \in DOMAIN txs :
                   txs[i].by = c => txs[i].kind \in {"hit", "stand"}

\* a cycle resumed an unfinished hand and requested an action on it
C30_Witness ==
    \E c \in Threads :
        /\ StartsOnUnfinishedHand(c)
        /\ hist[c].reqs # <<>>
        /\ \E i \in DOMAIN txs : txs[i].by = c


(***************************************************************************)
(* Claims C31 to C39.                                                       *)
(***************************************************************************)
\* the guard of the write action of job c on the state its pre-read sees
PreReadGuard(c) ==
    LET d == getGameDisplay(games)
        a == job[c].action
    IN  IF a = "start"
        THEN (d.gameId > 0 => getClaimableAmount(d.gameId) = 0) /\ d.canStartNew
        ELSE IF a = "hit" THEN d.canHit
        ELSE IF a = "stand" THEN d.canStand
        ELSE getClaimableAmount(arg[c]) > 0

\* the replies that say the action was not done
Refusals == {MsgUnclaimed, MsgCannotStart, MsgInsufficient, MsgErrorStart,
             MsgErrorHit, MsgErrorStand, MsgNoWinnings, MsgErrorClaim}

\* C31: each write action of the provider sends a transaction only if its
\* pre-read guard holds (start: nothing claimable of the previous game,
\* canStartNew, the balance covers the fee; hit: canHit; stand: canStand;
\* claim: claimable amount > 0), and otherwise returns a message that says
\* so with nothing submitted
C31_WritesAreGuarded ==
    [][/\ \A c \in Threads :
             (job[c].pc \in {"pre", "cpre"} /\ job'[c].pc # job[c].pc) =>
                 IF job'[c].pc \in {"send", "csend"}
                 THEN PreReadGuard(c) /\ txs' = txs
                 ELSE /\ job'[c].pc = "done"
                      /\ job'[c].reply \in Refusals
                      /\ txs' = txs
                      /\ UNCHANGED chainVars
       /\ (txs' # txs) =>
              \E c \in Threads : job[c].pc \in {"send", "csend"} /\ job'[c] # job[c]
      ]_vars

\* a hit was refused on its pre-read during the trading period, with no
\* transaction sent for it
C31_Witness ==
    \E c \in Threads :
        /\ job[c].pc = "done"
        /\ act[c] = "hit"
        /\ job[c].reply = MsgErrorHit
        /\ games.state = Active
        /\ games.tradingLeft > 0
        /\ \A i \in DOMAIN txs : txs[i].kind # "hit"


\* the snapshot is one pollGameState may return: final or actionable, not
\* pending and not in the trading period
FinalOrActionable(d) ==
    /\ isInFinalState(d)
    /\ games.state \notin {PendingInitialDeal, PendingHit, PendingStand}
    /\ ~(games.state = Active /\ games.tradingLeft > 0)

\* C32: pollGameState returns a snapshot only when it is final or actionable
\* ("Your turn", "Busted", "Game finished" or canStartNew), never a pending
\* one or one of the trading period, and otherwise keeps polling until the
\* VRF timeout: its loop ends in no other way
C32_PollEndsFinalOrTimedOut ==
    [][\A c \in Threads :
          (job[c].pc = "poll" /\ job'[c].pc # "poll" /\ pc'[c] = pc[c]) =>
              \/ FinalOrActionable(getGameDisplay(games))
              \/ pollGameState_timeout(c)
      ]_vars


\* C33: a cancel request is never lost and never invented: as long as a
\* cycle runs, its check shouldStop() answers true exactly if stop() was
\* called during that cycle, also when start() is called again before the
\* cycle has halted and when an earlier cycle completes and resets the flag
\* (in behaviours without any fault of the environment)
C33_CancelIsNeverLost ==
    \A c \in Threads :
        (faults = 0 /\ InCycle(c)) => (shouldStop <=> hist[c].cancelAt # "none")


\* C34: a listener registered with on() and not removed with off() receives
\* every event of every later cycle: the set of subscribed listeners changes
\* only by on() and off(), and a game loop whose events are forwarded stays
\* forwarded; stop() followed by start() does neither
C34_ListenerSurvivesRestart ==
    [][/\ (eventListeners' # eventListeners) =>
              \E l \in Listeners : on(l) \/ off(l)
       /\ \A o \in Threads : glForward[o] => glForward'[o]
      ]_vars


\* C35: absent cancellation, if every submission takes effect, the trading
\* period elapses and every VRF callback lands, a cycle playing the
\* threshold strategy halts with the on-chain hand in a terminal phase:
\* a cycle that was not cancelled and has halted, in a behaviour without any
\* fault of the environment, has left the hand Busted or Finished
C35_HaltsOnTerminalHand ==
    \A c \in Threads :
        (/\ faults = 0
         /\ pc[c] = "done"
         /\ hist[c].outcome \in {"completed", "error"}
         /\ hist[c].cancelAt = "none")
            => games.state \in {Busted, Finished}


\* C36: whenever the local phase is PLAYING, WAITING_HIT_VRF or
\* WAITING_STAND_VRF, the currentGameId of the status snapshot is the gameId
\* of the on-chain hand being played, also when the hand was resumed rather
\* than started by this cycle (in behaviours without any fault of the
\* environment)
C36_CurrentGameIdIsTheHand ==
    \A c \in Threads :
        (/\ faults = 0
         /\ InCycle(c)
         /\ glState[obj[c]] \in {PLAYING, WAITING_HIT_VRF, WAITING_STAND_VRF})
            => glGameId[obj[c]] = games.gameId


\* the snapshot that no branch of runGameCycle but the last one takes
NoBranchSnapshot(canStartNew, gameId) == ~canStartNew /\ gameId = 0

\* the planner on the snapshot of any game record, reachable or not
UnknownExactlyOnNoBranchSnapshot ==
    \A g \in PlannerGames :
        planCycle(getGameDisplay(g)) = "Unknown"
            <=> NoBranchSnapshot(getGameDisplay(g).canStartNew, g.gameId)

\* C37: the UnknownState branch of runGameCycle is taken exactly when the
\* snapshot has canStartNew false and gameId 0 (for the snapshots of the
\* cycles and for the snapshots of any game record), and getGameDisplay
\* produces no such snapshot in a reachable state of the contract, so that
\* no cycle takes the branch
C37_UnknownStateIsUnreachable ==
    /\ \A c \in Threads :
           hist[c].first.read =>
               (hist[c].branch = "Unknown"
                    <=> NoBranchSnapshot(hist[c].first.canStartNew, hist[c].first.gameId))
    /\ UnknownExactlyOnNoBranchSnapshot
    /\ ~NoBranchSnapshot(getGameDisplay(games).canStartNew, getGameDisplay(games).gameId)
    /\ \A c \in Threads : hist[c].branch # "Unknown"

\* a cycle has planned on a snapshot that does not allow a new game: the
\* hand has a game id and is resumed
C37_Witness ==
    \E c \in Threads :
        /\ hist[c].first.read
        /\ ~hist[c].first.canStartNew
        /\ hist[c].first.gameId > 0
        /\ hist[c].branch = "ResumeActive"


\* the relation between the counters of the local statistics
StatsBalance(stats) ==
    /\ stats.gamesPlayed = stats.wins + stats.losses + stats.pushes
    /\ stats.busts <= stats.losses

\* C38: the local statistics keep gamesPlayed = wins + losses + pushes and
\* busts <= losses through every step of a cycle (loading them from the
\* contract aside), provided they satisfied them before: every updateStats
\* call increments exactly one of wins, losses, pushes
C38_StatsStayBalanced ==
    [][\A o \in Threads :
          (StatsBalance(glStats[o]) /\ ~(\E c \in Threads : initialize(c)))
              => StatsBalance(glStats'[o])]_vars


\* C39: in every reachable contract state a game is Busted only if the
\* player's hand value exceeds 21 and Active only if it is at most 21, and
\* the VRF callback of a hit moves PendingHit to Busted exactly when the new
\* hand value exceeds 21 and otherwise back to Active
C39_PhaseDecidesBust ==
    /\ [](games.state = Busted => _calculateHandValue(games.playerHand) > 21)
    /\ [](games.state = Active => _calculateHandValue(games.playerHand) <= 21)
    /\ [][(fulfillRandomWords /\ games.state = PendingHit) =>
              /\ Len(games'.playerHand) = Len(games.playerHand) + 1
              /\ games'.state = IF _calculateHandValue(games'.playerHand) > 21
                                THEN Busted ELSE Active]_vars

\* a hit was resolved to a bust
C39_Witness ==
    /\ games.state = Busted
    /\ Len(games.playerHand) > 2
    /\ _calculateHandValue(games.playerHand) > 21

=============================================================================
